---- MODULE Spec2Model ----
(***************************************************************************)
(* Model of package mysqlconnect: Open resolves a Config into a registry   *)
(* of pooled handles.  Strings are sequences of one-character strings so   *)
(* that formatting (Sprintf), upper-casing and environment lookups are     *)
(* computed the way the code computes them.                                *)
(***************************************************************************)
EXTENDS Integers, Sequences, FiniteSets, TLC

VARIABLES config, env, drivers, pc, idx, db, dbs, handles, opens, ret,
          closes, closeCalls, closeRet, got, listed, used, calls,
          codec, logger

\* The state of the calls made on a returned registry.
regVars == <<closes, closeCalls, closeRet, got, listed, used, calls, codec, logger>>

vars == <<config, env, drivers, pc, idx, db, dbs, handles, opens, ret, regVars>>

(* ------------------------------------------------------------------ *)
(* Bounds of the model.                                                 *)
(* ------------------------------------------------------------------ *)
MaxConns == 2

(* ------------------------------------------------------------------ *)
(* Strings.                                                             *)
(* ------------------------------------------------------------------ *)
Lower == <<"a","b","c","d","e","f","g","h","i","j","k","l","m",
           "n","o","p","q","r","s","t","u","v","w","x","y","z">>
Upper == <<"A","B","C","D","E","F","G","H","I","J","K","L","M",
           "N","O","P","Q","R","S","T","U","V","W","X","Y","Z">>

UpperChar(c) ==
    IF \E k \in 1..Len(Lower) : Lower[k] = c
    THEN Upper[CHOOSE k \in 1..Len(Lower) : Lower[k] = c]
    ELSE c

\* strings.ToUpper
ToUpper(s) == [k \in 1..Len(s) |-> UpperChar(s[k])]

\* A nil pointer is <<>>, a pointer to v is <<v>>.
Nil == <<>>
Ptr(v) == <<v>>
Deref(p) == p[1]

\* Map insertion m[k] = v.
Put(m, k, v) == [x \in (DOMAIN m) \cup {k} |-> IF x = k THEN v ELSE m[x]]

(* ------------------------------------------------------------------ *)
(* String constants of the format strings in openMySQL / openMySQLHA.   *)
(* ------------------------------------------------------------------ *)
S_DB_MYSQL == <<"D","B","_","M","Y","S","Q","L","_">>
S_DB_HA_MYSQL == <<"D","B","_","H","A","_","M","Y","S","Q","L","_">>
S_US == <<"_">>
S_ENDPOINT == <<"_","E","N","D","P","O","I","N","T">>
S_LOCAL_REPLICA_ENDPOINT == <<"_","L","O","C","A","L","_","R","E","P","L","I","C","A","_","E","N","D","P","O","I","N","T">>
S_WR_ENDPOINT == <<"_","W","R","_","E","N","D","P","O","I","N","T">>
S_RO_ENDPOINT == <<"_","R","O","_","E","N","D","P","O","I","N","T">>
S_RPROD == <<"_","R","P","R","O","D">>
S_WPROD == <<"_","W","P","R","O","D">>
S_COLON == <<":">>
S_AT_TCP == <<"@","t","c","p","(">>
S_CLOSE_SLASH == <<")","/">>
S_QMARK == <<"?">>

(* ------------------------------------------------------------------ *)
(* Input values: the configurations and environments Open is run on.    *)
(* ------------------------------------------------------------------ *)
DSNValues == { <<>>, <<"r","@","/","f">> }
ClusterValues == { <<>>, <<"e","8">> }
SchemaValues == { <<>>, <<"b","a">> }
NameValues == { <<"f","o">>, <<"b","a">> }

\* ConnectionPool values: every field is a pointer (nil when absent).
NoPool ==
    [ConnMaxLifetime |-> Nil, MaxIdleConnections |-> Nil,
     MaxOpenConnections |-> Nil, ConnMaxIdleTime |-> Nil]
SomePool ==
    [ConnMaxLifetime |-> Ptr(600), MaxIdleConnections |-> Nil,
     MaxOpenConnections |-> Ptr(0), ConnMaxIdleTime |-> Nil]
PoolValues == { NoPool, SomePool }

\* The per-connection tuning: <<Parameters, ConnectionPool>>.
TuningValues == { <<<<>>, NoPool>>, <<<<"t","=","1">>, SomePool>> }

ConnectionValues ==
    { [Name |-> n, IsMaster |-> m, IsReadOnly |-> r,
       Parameters |-> t[1], ConnectionPool |-> t[2]] :
      n \in NameValues, m \in BOOLEAN, r \in BOOLEAN, t \in TuningValues }

SeqsUpTo(S, n) == UNION { [1..k -> S] : k \in 0..n }

ConfigValues ==
    [DSN : DSNValues, Cluster : ClusterValues, HACluster : ClusterValues,
     Schema : SchemaValues, Connections : SeqsUpTo(ConnectionValues, MaxConns)]

\* A process environment is a set of <<variable name, value>> pairs.  The
\* state holds the label of the environment Open runs in.
EnvFull == {
    <<<<"D","B","_","M","Y","S","Q","L","_","E","8","_","B","A","_","B","A","_","E","N","D","P","O","I","N","T">>,
      <<"h","1">>>>,
    <<<<"D","B","_","M","Y","S","Q","L","_","E","8","_","B","A","_","B","A","_","L","O","C","A","L","_","R","E","P","L","I","C","A","_","E","N","D","P","O","I","N","T">>,
      <<"h","2">>>>,
    <<<<"D","B","_","M","Y","S","Q","L","_","E","8","_","B","A","_","B","A","_","W","P","R","O","D">>,
      <<"w","1">>>>,
    <<<<"D","B","_","M","Y","S","Q","L","_","E","8","_","B","A","_","B","A","_","R","P","R","O","D">>,
      <<"r","1">>>>,
    <<<<"D","B","_","H","A","_","M","Y","S","Q","L","_","E","8","_","B","A","_","B","A","_","W","R","_","E","N","D","P","O","I","N","T">>,
      <<"h","3">>>>,
    <<<<"D","B","_","H","A","_","M","Y","S","Q","L","_","E","8","_","B","A","_","B","A","_","R","O","_","E","N","D","P","O","I","N","T">>,
      <<"h","4">>>>,
    <<<<"D","B","_","H","A","_","M","Y","S","Q","L","_","E","8","_","B","A","_","B","A","_","W","P","R","O","D">>,
      <<"w","2">>>>,
    <<<<"D","B","_","H","A","_","M","Y","S","Q","L","_","E","8","_","B","A","_","B","A","_","R","P","R","O","D">>,
      <<"r","2">>>>
    }
EnvValues == { "full" }
\* The endpoint variables of EnvFull are those holding a host.
EndpointEntries == { p \in EnvFull : p[2][1] = "h" }
Environ(label) ==
    IF label = "full" THEN EnvFull
    ELSE IF label = "noendpoint" THEN EnvFull \ EndpointEntries
    ELSE IF label = "nocredential" THEN EndpointEntries
    ELSE {}

\* The drivers registered with database/sql when Open is called.
DriverSets == { {}, {"mysql"}, {"mysql", "nrmysql"} }

\* os.Getenv: the value of the variable, "" when it is not set.
Getenv(e, name) ==
    IF \E p \in e : p[1] = name
    THEN (CHOOSE p \in e : p[1] = name)[2]
    ELSE <<>>

(* ------------------------------------------------------------------ *)
(* Errors.  An error is a record: msg is the fixed text, arg the value  *)
(* formatted into it ("" when the text has none).                       *)
(* ------------------------------------------------------------------ *)
Err(m, a) == [msg |-> m, arg |-> a]

ErrAllEmpty == "invalid MySQL config: DSN, Cluster and HACluster are empty"
ErrDSNExclusive == "invalid MySQL config: DSN is mutually exclusive with Cluster and HACluster"
ErrClusterExclusive == "invalid MySQL config: Cluster is mutually exclusive with HACluster"
ErrDSNSchema == "invalid MySQL config: DSN is mutually exclusive with Schema since the schema is already defined in the DSN"
ErrSchemaMissing == "invalid MySQL config: when DSN is empty the Schema must be defined"
ErrNoConnections == "invalid MySQL config: no connections defined"
ErrDuplicated == "invalid MySQL config: duplicated connection name %q"
ErrReplicaWrite == "invalid MySQL config: cannot write to a replica: connection %q"
ErrDriverOpen == "sql: open failed"

(* ------------------------------------------------------------------ *)
(* validateDuplicateNames: the first name, in list order, that was      *)
(* already seen.                                                        *)
(* ------------------------------------------------------------------ *)
RECURSIVE duplicateLoop(_, _, _)
duplicateLoop(connections, k, connectionNames) ==
    IF k > Len(connections) THEN Nil
    ELSE IF connections[k].Name \in connectionNames
    THEN Ptr(Err(ErrDuplicated, connections[k].Name))
    ELSE duplicateLoop(connections, k + 1, connectionNames \cup {connections[k].Name})

\* Faulty variant: the loop never records the names it has seen.
RECURSIVE duplicateLoopNoInsert(_, _, _)
duplicateLoopNoInsert(connections, k, connectionNames) ==
    IF k > Len(connections) THEN Nil
    ELSE IF connections[k].Name \in connectionNames
    THEN Ptr(Err(ErrDuplicated, connections[k].Name))
    ELSE duplicateLoopNoInsert(connections, k + 1, connectionNames)

validateDuplicateNamesNoInsert(connections) == duplicateLoopNoInsert(connections, 1, {})

validateDuplicateNames(connections) == duplicateLoop(connections, 1, {})

(* ------------------------------------------------------------------ *)
(* Faulty variants of the checks before the loop.                       *)
(* ------------------------------------------------------------------ *)
\* The empty-list check placed before the schema checks.
ValidateConfigConnectionsFirst(c) ==
    IF c.DSN = <<>> /\ c.Cluster = <<>> /\ c.HACluster = <<>>
    THEN Ptr(Err(ErrAllEmpty, <<>>))
    ELSE IF c.DSN # <<>> /\ (c.Cluster # <<>> \/ c.HACluster # <<>>)
    THEN Ptr(Err(ErrDSNExclusive, <<>>))
    ELSE IF c.Cluster # <<>> /\ c.HACluster # <<>>
    THEN Ptr(Err(ErrClusterExclusive, <<>>))
    ELSE IF Len(c.Connections) = 0
    THEN Ptr(Err(ErrNoConnections, <<>>))
    ELSE IF c.DSN # <<>> /\ c.Schema # <<>>
    THEN Ptr(Err(ErrDSNSchema, <<>>))
    ELSE IF c.DSN = <<>> /\ c.Schema = <<>>
    THEN Ptr(Err(ErrSchemaMissing, <<>>))
    ELSE validateDuplicateNames(c.Connections)

\* The Cluster / HACluster exclusion forgotten.
ValidateConfigNoClusterExclusive(c) ==
    IF c.DSN = <<>> /\ c.Cluster = <<>> /\ c.HACluster = <<>>
    THEN Ptr(Err(ErrAllEmpty, <<>>))
    ELSE IF c.DSN # <<>> /\ (c.Cluster # <<>> \/ c.HACluster # <<>>)
    THEN Ptr(Err(ErrDSNExclusive, <<>>))
    ELSE IF c.DSN # <<>> /\ c.Schema # <<>>
    THEN Ptr(Err(ErrDSNSchema, <<>>))
    ELSE IF c.DSN = <<>> /\ c.Schema = <<>>
    THEN Ptr(Err(ErrSchemaMissing, <<>>))
    ELSE IF Len(c.Connections) = 0
    THEN Ptr(Err(ErrNoConnections, <<>>))
    ELSE validateDuplicateNames(c.Connections)

\* The "Schema must be defined" check forgotten.
ValidateConfigNoSchemaRequired(c) ==
    IF c.DSN = <<>> /\ c.Cluster = <<>> /\ c.HACluster = <<>>
    THEN Ptr(Err(ErrAllEmpty, <<>>))
    ELSE IF c.DSN # <<>> /\ (c.Cluster # <<>> \/ c.HACluster # <<>>)
    THEN Ptr(Err(ErrDSNExclusive, <<>>))
    ELSE IF c.Cluster # <<>> /\ c.HACluster # <<>>
    THEN Ptr(Err(ErrClusterExclusive, <<>>))
    ELSE IF c.DSN # <<>> /\ c.Schema # <<>>
    THEN Ptr(Err(ErrDSNSchema, <<>>))
    ELSE IF Len(c.Connections) = 0
    THEN Ptr(Err(ErrNoConnections, <<>>))
    ELSE validateDuplicateNames(c.Connections)

\* The "no connections defined" check forgotten.
ValidateConfigNoEmptyCheck(c) ==
    IF c.DSN = <<>> /\ c.Cluster = <<>> /\ c.HACluster = <<>>
    THEN Ptr(Err(ErrAllEmpty, <<>>))
    ELSE IF c.DSN # <<>> /\ (c.Cluster # <<>> \/ c.HACluster # <<>>)
    THEN Ptr(Err(ErrDSNExclusive, <<>>))
    ELSE IF c.Cluster # <<>> /\ c.HACluster # <<>>
    THEN Ptr(Err(ErrClusterExclusive, <<>>))
    ELSE IF c.DSN # <<>> /\ c.Schema # <<>>
    THEN Ptr(Err(ErrDSNSchema, <<>>))
    ELSE IF c.DSN = <<>> /\ c.Schema = <<>>
    THEN Ptr(Err(ErrSchemaMissing, <<>>))
    ELSE validateDuplicateNames(c.Connections)

(* ------------------------------------------------------------------ *)
(* Open, the checks before the loop: nil, or the error returned.        *)
(* ------------------------------------------------------------------ *)
\* The check that one of DSN, Cluster and HACluster is set forgotten.
ValidateConfigNoModeRequired(c) ==
    IF c.DSN # <<>> /\ (c.Cluster # <<>> \/ c.HACluster # <<>>)
    THEN Ptr(Err(ErrDSNExclusive, <<>>))
    ELSE IF c.Cluster # <<>> /\ c.HACluster # <<>>
    THEN Ptr(Err(ErrClusterExclusive, <<>>))
    ELSE IF c.DSN # <<>> /\ c.Schema # <<>>
    THEN Ptr(Err(ErrDSNSchema, <<>>))
    ELSE IF c.DSN = <<>> /\ c.Schema = <<>>
    THEN Ptr(Err(ErrSchemaMissing, <<>>))
    ELSE IF Len(c.Connections) = 0
    THEN Ptr(Err(ErrNoConnections, <<>>))
    ELSE validateDuplicateNames(c.Connections)

ValidateConfig(c) ==
    IF c.DSN = <<>> /\ c.Cluster = <<>> /\ c.HACluster = <<>>
    THEN Ptr(Err(ErrAllEmpty, <<>>))
    ELSE IF c.DSN # <<>> /\ (c.Cluster # <<>> \/ c.HACluster # <<>>)
    THEN Ptr(Err(ErrDSNExclusive, <<>>))
    ELSE IF c.Cluster # <<>> /\ c.HACluster # <<>>
    THEN Ptr(Err(ErrClusterExclusive, <<>>))
    ELSE IF c.DSN # <<>> /\ c.Schema # <<>>
    THEN Ptr(Err(ErrDSNSchema, <<>>))
    ELSE IF c.DSN = <<>> /\ c.Schema = <<>>
    THEN Ptr(Err(ErrSchemaMissing, <<>>))
    ELSE IF Len(c.Connections) = 0
    THEN Ptr(Err(ErrNoConnections, <<>>))
    ELSE validateDuplicateNames(c.Connections)

\* Faulty variant: the check applied in DSN mode too.
CannotWriteToReplicaAnyMode(c, cc) ==
    ~cc.IsMaster /\ ~cc.IsReadOnly

\* Open, the first check of the loop body.
CannotWriteToReplica(c, cc) ==
    c.DSN = <<>> /\ (~cc.IsMaster /\ ~cc.IsReadOnly)

(* ------------------------------------------------------------------ *)
(* openMySQL / openMySQLHA: the dsn handed to openDSN.                  *)
(* ------------------------------------------------------------------ *)
EnvName(prefix, cluster, schema, suffix) ==
    prefix \o ToUpper(cluster) \o S_US \o ToUpper(schema) \o S_US \o ToUpper(schema) \o suffix

ComposeDSN(username, password, host, schema, parameters) ==
    LET dsn == username \o S_COLON \o password \o S_AT_TCP \o host \o S_CLOSE_SLASH \o schema
    IN  IF parameters # <<>> THEN dsn \o S_QMARK \o parameters ELSE dsn

\* Faulty variant: the host chosen by IsReadOnly instead of IsMaster.
openMySQLHostByReadOnly(cluster, schema, cc, e) ==
    LET host == IF ~cc.IsReadOnly
                THEN Getenv(e, EnvName(S_DB_MYSQL, cluster, schema, S_ENDPOINT))
                ELSE Getenv(e, EnvName(S_DB_MYSQL, cluster, schema, S_LOCAL_REPLICA_ENDPOINT))
        username == IF cc.IsReadOnly THEN schema \o S_RPROD ELSE schema \o S_WPROD
        password == IF cc.IsReadOnly
                    THEN Getenv(e, EnvName(S_DB_MYSQL, cluster, schema, S_RPROD))
                    ELSE Getenv(e, EnvName(S_DB_MYSQL, cluster, schema, S_WPROD))
    IN  ComposeDSN(username, password, host, schema, cc.Parameters)

openMySQL(cluster, schema, cc, e) ==
    LET host == IF cc.IsMaster
                THEN Getenv(e, EnvName(S_DB_MYSQL, cluster, schema, S_ENDPOINT))
                ELSE Getenv(e, EnvName(S_DB_MYSQL, cluster, schema, S_LOCAL_REPLICA_ENDPOINT))
        username == IF cc.IsReadOnly THEN schema \o S_RPROD ELSE schema \o S_WPROD
        password == IF cc.IsReadOnly
                    THEN Getenv(e, EnvName(S_DB_MYSQL, cluster, schema, S_RPROD))
                    ELSE Getenv(e, EnvName(S_DB_MYSQL, cluster, schema, S_WPROD))
    IN  ComposeDSN(username, password, host, schema, cc.Parameters)

\* Faulty variant: the single-cluster variable names used for the HA cluster.
openMySQLHASingleNames(cluster, schema, cc, e) ==
    LET host == IF cc.IsMaster
                THEN Getenv(e, EnvName(S_DB_MYSQL, cluster, schema, S_ENDPOINT))
                ELSE Getenv(e, EnvName(S_DB_MYSQL, cluster, schema, S_LOCAL_REPLICA_ENDPOINT))
        username == IF cc.IsReadOnly THEN schema \o S_RPROD ELSE schema \o S_WPROD
        password == IF cc.IsReadOnly
                    THEN Getenv(e, EnvName(S_DB_MYSQL, cluster, schema, S_RPROD))
                    ELSE Getenv(e, EnvName(S_DB_MYSQL, cluster, schema, S_WPROD))
    IN  ComposeDSN(username, password, host, schema, cc.Parameters)

openMySQLHA(cluster, schema, cc, e) ==
    LET host == IF cc.IsMaster
                THEN Getenv(e, EnvName(S_DB_HA_MYSQL, cluster, schema, S_WR_ENDPOINT))
                ELSE Getenv(e, EnvName(S_DB_HA_MYSQL, cluster, schema, S_RO_ENDPOINT))
        username == IF cc.IsReadOnly THEN schema \o S_RPROD ELSE schema \o S_WPROD
        password == IF cc.IsReadOnly
                    THEN Getenv(e, EnvName(S_DB_HA_MYSQL, cluster, schema, S_RPROD))
                    ELSE Getenv(e, EnvName(S_DB_HA_MYSQL, cluster, schema, S_WPROD))
    IN  ComposeDSN(username, password, host, schema, cc.Parameters)

\* Faulty variant: the per-connection parameters appended to the DSN.
ResolveDSNWithParameters(c, cc, e) ==
    IF c.DSN # <<>>
    THEN Ptr(IF cc.Parameters # <<>> THEN c.DSN \o S_QMARK \o cc.Parameters ELSE c.DSN)
    ELSE IF c.Cluster # <<>> THEN Ptr(openMySQL(c.Cluster, c.Schema, cc, e))
    ELSE IF c.HACluster # <<>> THEN Ptr(openMySQLHA(c.HACluster, c.Schema, cc, e))
    ELSE Nil

\* Open, the choice of the open path: a pointer to the dsn handed to
\* openDSN, nil when none of the three branches is taken.
ResolveDSN(c, cc, e) ==
    IF c.DSN # <<>> THEN Ptr(c.DSN)
    ELSE IF c.Cluster # <<>> THEN Ptr(openMySQL(c.Cluster, c.Schema, cc, e))
    ELSE IF c.HACluster # <<>> THEN Ptr(openMySQLHA(c.HACluster, c.Schema, cc, e))
    ELSE Nil

\* getDriverName: "nrmysql" when that driver is registered, else "mysql".
getDriverName(registered) ==
    IF "nrmysql" \in registered THEN "nrmysql" ELSE "mysql"

(* ------------------------------------------------------------------ *)
(* Handles.  A pool setting of a handle is nil until its setter is      *)
(* called, and then holds the value it was called with.                 *)
(* ------------------------------------------------------------------ *)
NewHandle(driverName, dsn) ==
    [driver |-> driverName, dsn |-> dsn, closed |-> FALSE,
     connMaxLifetime |-> Nil, maxIdleConns |-> Nil,
     maxOpenConns |-> Nil, connMaxIdleTime |-> Nil]

\* Faulty variant of the setter calls below: a setting is applied only when
\* it is present and not zero.
ApplyPoolSkipZero(h, pool) ==
    [h EXCEPT
       !.connMaxLifetime = IF pool.ConnMaxLifetime # Nil /\ pool.ConnMaxLifetime # Ptr(0)
                           THEN Ptr(Deref(pool.ConnMaxLifetime)) ELSE @,
       !.maxIdleConns = IF pool.MaxIdleConnections # Nil /\ pool.MaxIdleConnections # Ptr(0)
                        THEN Ptr(Deref(pool.MaxIdleConnections)) ELSE @,
       !.maxOpenConns = IF pool.MaxOpenConnections # Nil /\ pool.MaxOpenConnections # Ptr(0)
                        THEN Ptr(Deref(pool.MaxOpenConnections)) ELSE @,
       !.connMaxIdleTime = IF pool.ConnMaxIdleTime # Nil /\ pool.ConnMaxIdleTime # Ptr(0)
                           THEN Ptr(Deref(pool.ConnMaxIdleTime)) ELSE @]

\* Open, the four conditional setter calls.
ApplyPool(h, pool) ==
    [h EXCEPT
       !.connMaxLifetime = IF pool.ConnMaxLifetime # Nil
                           THEN Ptr(Deref(pool.ConnMaxLifetime)) ELSE @,
       !.maxIdleConns = IF pool.MaxIdleConnections # Nil
                        THEN Ptr(Deref(pool.MaxIdleConnections)) ELSE @,
       !.maxOpenConns = IF pool.MaxOpenConnections # Nil
                        THEN Ptr(Deref(pool.MaxOpenConnections)) ELSE @,
       !.connMaxIdleTime = IF pool.ConnMaxIdleTime # Nil
                           THEN Ptr(Deref(pool.ConnMaxIdleTime)) ELSE @]

AnyPoolSet(pool) ==
    \/ pool.ConnMaxLifetime # Nil
    \/ pool.MaxIdleConnections # Nil
    \/ pool.MaxOpenConnections # Nil
    \/ pool.ConnMaxIdleTime # Nil

(* ------------------------------------------------------------------ *)
(* State.                                                               *)
(*   config, env, drivers : the inputs of the Open call                 *)
(*   pc       : position of the Open call                               *)
(*   idx      : index of the loop over config.Connections               *)
(*   db       : the local db of the loop body (0 is the nil handle)     *)
(*   dbs      : the local map name -> handle                            *)
(*   handles  : the handles sql.Open has created, by handle number      *)
(*   opens    : every call of sql.Open so far                           *)
(*   ret      : what Open returned (conns, err), both nil until then    *)
(*   closes   : the handle closes attempted by the last Close call      *)
(*   closeCalls, closeRet : the number of Close calls, the last's error *)
(*   got, listed, used : the result of the last Get, List, handle use   *)
(*   calls    : the Get or List call each concurrent caller is in        *)
(*   codec    : the JSON text or value being parsed or serialized        *)
(*   logger   : what the logger has printed and done, in order           *)
(* ------------------------------------------------------------------ *)
NoReturn == [conns |-> Nil, err |-> Nil]

\* The concurrent callers of a registry, and a caller that is in no call.
MaxCallers == 2
Callers == 1..MaxCallers
\* No JSON text or value is at hand.
NoCodec == [phase |-> "none"]

NoCall == [op |-> "none", state |-> "idle", name |-> <<>>, keys |-> <<>>, out |-> <<>>, err |-> Nil]

InitWith(configs, envs) ==
    /\ config \in configs
    /\ env \in envs
    /\ drivers \in DriverSets
    /\ pc = "Validate"
    /\ idx = 0
    /\ db = 0
    /\ dbs = <<>>
    /\ handles = <<>>
    /\ opens = <<>>
    /\ ret = NoReturn
    /\ closes = <<>>
    /\ closeCalls = 0
    /\ closeRet = Nil
    /\ got = Nil
    /\ listed = Nil
    /\ used = Nil
    /\ calls = [p \in Callers |-> NoCall]
    /\ codec = NoCodec
    /\ logger = <<>>

Init == InitWith(ConfigValues, EnvValues)

\* Open, lines 161-190: the checks before the loop, then dbs := make(map).
OpenValidate ==
    /\ pc = "Validate"
    /\ LET e == ValidateConfig(config)
       IN  IF e # Nil
           THEN /\ ret' = [conns |-> Nil, err |-> e]
                /\ pc' = "Done"
                /\ idx' = idx
           ELSE /\ ret' = ret
                /\ pc' = "Loop"
                /\ idx' = 1
    /\ dbs' = <<>>
    /\ UNCHANGED <<config, env, drivers, db, handles, opens>>
    /\ UNCHANGED regVars

\* Open, lines 191-197 and 233-235: the loop head (return the registry when
\* the list is exhausted) and the master/read-only check of the body.
OpenLoop ==
    /\ pc = "Loop"
    /\ IF idx > Len(config.Connections)
       THEN /\ ret' = [conns |-> Ptr(dbs), err |-> Nil]
            /\ pc' = "Done"
       ELSE IF CannotWriteToReplica(config, config.Connections[idx])
       THEN /\ ret' = [conns |-> Nil,
                       err |-> Ptr(Err(ErrReplicaWrite, config.Connections[idx].Name))]
            /\ pc' = "Done"
       ELSE /\ ret' = ret
            /\ pc' = "Connect"
    /\ db' = 0
    /\ UNCHANGED <<config, env, drivers, idx, dbs, handles, opens>>
    /\ UNCHANGED regVars

\* Faulty variant of the step below: a failed open is skipped and the loop
\* goes on with the next spec.
OpenConnectSkipFailed ==
    /\ pc = "Connect"
    /\ LET dsn == ResolveDSN(config, config.Connections[idx], Environ(env))
           name == getDriverName(drivers)
       IN  IF dsn = Nil
           THEN /\ pc' = "Pool"
                /\ UNCHANGED <<db, handles, opens, ret, idx>>
           ELSE \E ok \in BOOLEAN :
                /\ ok => name \in drivers
                /\ opens' = Append(opens, [spec |-> idx, driver |-> name,
                                           dsn |-> Deref(dsn), ok |-> ok])
                /\ ret' = ret
                /\ IF ok
                   THEN /\ handles' = Append(handles, NewHandle(name, Deref(dsn)))
                        /\ db' = Len(handles) + 1
                        /\ pc' = "Pool"
                        /\ idx' = idx
                   ELSE /\ pc' = "Loop"
                        /\ idx' = idx + 1
                        /\ UNCHANGED <<db, handles>>
    /\ UNCHANGED <<config, env, drivers, dbs>>
    /\ UNCHANGED regVars

\* Faulty variant of the step below: when an open fails, the handles opened
\* for the earlier specs are closed before the error is returned.
OpenConnectCloseOnFailure ==
    /\ pc = "Connect"
    /\ LET dsn == ResolveDSN(config, config.Connections[idx], Environ(env))
           name == getDriverName(drivers)
       IN  IF dsn = Nil
           THEN /\ pc' = "Pool"
                /\ UNCHANGED <<db, handles, opens, ret>>
           ELSE \E ok \in BOOLEAN :
                /\ ok => name \in drivers
                /\ opens' = Append(opens, [spec |-> idx, driver |-> name,
                                           dsn |-> Deref(dsn), ok |-> ok])
                /\ IF ok
                   THEN /\ handles' = Append(handles, NewHandle(name, Deref(dsn)))
                        /\ db' = Len(handles) + 1
                        /\ pc' = "Pool"
                        /\ ret' = ret
                   ELSE /\ ret' = [conns |-> Nil, err |-> Ptr(Err(ErrDriverOpen, <<>>))]
                        /\ pc' = "Done"
                        /\ handles' = [h \in 1..Len(handles) |->
                                          [handles[h] EXCEPT !.closed = TRUE]]
                        /\ db' = db
    /\ UNCHANGED <<config, env, drivers, idx, dbs>>
    /\ UNCHANGED regVars

\* Open, lines 199-209, with openDSN: sql.Open fails when the driver name is
\* not registered, and otherwise succeeds or fails as the driver decides.
OpenConnect ==
    /\ pc = "Connect"
    /\ LET dsn == ResolveDSN(config, config.Connections[idx], Environ(env))
           name == getDriverName(drivers)
       IN  IF dsn = Nil
           THEN /\ pc' = "Pool"
                /\ UNCHANGED <<db, handles, opens, ret>>
           ELSE \E ok \in BOOLEAN :
                /\ ok => name \in drivers
                /\ opens' = Append(opens, [spec |-> idx, driver |-> name,
                                           dsn |-> Deref(dsn), ok |-> ok])
                /\ IF ok
                   THEN /\ handles' = Append(handles, NewHandle(name, Deref(dsn)))
                        /\ db' = Len(handles) + 1
                        /\ pc' = "Pool"
                        /\ ret' = ret
                   ELSE /\ ret' = [conns |-> Nil, err |-> Ptr(Err(ErrDriverOpen, <<>>))]
                        /\ pc' = "Done"
                        /\ UNCHANGED <<db, handles>>
    /\ UNCHANGED <<config, env, drivers, idx, dbs>>
    /\ UNCHANGED regVars

\* Open, lines 211-228: the pool setters; a setter called on the nil
\* handle panics.
OpenSetPool ==
    /\ pc = "Pool"
    /\ LET pool == config.Connections[idx].ConnectionPool
       IN  IF db = 0
           THEN /\ pc' = IF AnyPoolSet(pool) THEN "Panic" ELSE "Register"
                /\ handles' = handles
           ELSE /\ handles' = [handles EXCEPT ![db] = ApplyPool(@, pool)]
                /\ pc' = "Register"
    /\ UNCHANGED <<config, env, drivers, idx, db, dbs, opens, ret>>
    /\ UNCHANGED regVars

\* Faulty variant of the step below: the handle is not stored in the map.
OpenRegisterNothing ==
    /\ pc = "Register"
    /\ idx' = idx + 1
    /\ pc' = "Loop"
    /\ UNCHANGED <<config, env, drivers, db, dbs, handles, opens, ret>>
    /\ UNCHANGED regVars

\* Open, line 230: dbs[connectionConfig.Name] = db, and the next iteration.
OpenRegister ==
    /\ pc = "Register"
    /\ dbs' = Put(dbs, config.Connections[idx].Name, db)
    /\ idx' = idx + 1
    /\ pc' = "Loop"
    /\ UNCHANGED <<config, env, drivers, db, handles, opens, ret>>
    /\ UNCHANGED regVars

Next ==
    \/ OpenValidate
    \/ OpenLoop
    \/ OpenConnect
    \/ OpenSetPool
    \/ OpenRegister

Spec == Init /\ [][Next]_vars

(* ------------------------------------------------------------------ *)
(* The registry: Get, List, Close, and the use of a handle.             *)
(* ------------------------------------------------------------------ *)
MaxCloses == 2

S_FAILED_TO_CLOSE == <<"f","a","i","l","e","d"," ","t","o"," ","c","l","o","s","e"," ","c","o","n","n","e","c","t","i","o","n","s",":"," ">>
S_COMMA_SPACE == <<","," ">>
S_COLON_SPACE == <<":"," ">>
\* driver.ErrBadConn, the error the mock connector closes with.
S_BAD_CONN == <<"d","r","i","v","e","r",":"," ","b","a","d"," ","c","o","n","n","e","c","t","i","o","n">>

\* "unknown connection name %s" up to its verb.
S_UNKNOWN_NAME == <<"u","n","k","n","o","w","n"," ","c","o","n","n","e","c","t","i","o","n"," ","n","a","m","e"," ">>
ErrDBClosed == "sql: database is closed"

\* The byte order of the characters sort.Strings compares.
ByteOrder == <<"0","1","2","3","4","5","6","7","8","9">> \o Upper \o <<"_">> \o Lower
Code(c) == CHOOSE k \in 1..Len(ByteOrder) : ByteOrder[k] = c

\* a < b, byte-wise lexicographic.
StrLess(a, b) ==
    \E k \in 1..(Len(a) + 1) :
        /\ k <= Len(b)
        /\ \A j \in 1..(k - 1) : a[j] = b[j]
        /\ (k = Len(a) + 1 \/ Code(a[k]) < Code(b[k]))

\* Faulty variant of the sort below: descending order.
RECURSIVE SortStringsDescending(_)
SortStringsDescending(S) ==
    IF S = {} THEN <<>>
    ELSE LET m == CHOOSE x \in S : \A y \in S \ {x} : StrLess(y, x)
         IN  <<m>> \o SortStringsDescending(S \ {m})

\* maps.Keys followed by sort.Strings: the keys in ascending order.
RECURSIVE SortStrings(_)
SortStrings(S) ==
    IF S = {} THEN <<>>
    ELSE LET m == CHOOSE x \in S : \A y \in S \ {x} : StrLess(x, y)
         IN  <<m>> \o SortStrings(S \ {m})

\* Faulty variant of the join below: no space after the comma.
RECURSIVE JoinNoSpace(_, _)
JoinNoSpace(elems, sep) ==
    IF Len(elems) = 0 THEN <<>>
    ELSE IF Len(elems) = 1 THEN elems[1]
    ELSE elems[1] \o <<",">> \o JoinNoSpace(Tail(elems), sep)

\* strings.Join
RECURSIVE Join(_, _)
Join(elems, sep) ==
    IF Len(elems) = 0 THEN <<>>
    ELSE IF Len(elems) = 1 THEN elems[1]
    ELSE elems[1] \o sep \o Join(Tail(elems), sep)

\* (*sql.DB).Close on the handle h: nil on a handle already closed; else
\* the handle is closed and the error is the one its connector closes with.
HandleClose(h, fails) ==
    IF h.closed
    THEN [handle |-> h, err |-> Nil]
    ELSE [handle |-> [h EXCEPT !.closed = TRUE],
          err |-> IF fails THEN Ptr(S_BAD_CONN) ELSE Nil]

\* Faulty variant of the loop below: it returns at the first failed close.
RECURSIVE closeLoopStopAtFirst(_, _, _, _, _, _, _)
closeLoopStopAtFirst(reg, names, k, hs, errs, log, failing) ==
    IF k > Len(names) \/ Len(errs) > 0
    THEN [handles |-> hs, errs |-> errs, log |-> log]
    ELSE LET h == reg[names[k]]
             r == HandleClose(hs[h], h \in failing)
         IN  closeLoopStopAtFirst(reg, names, k + 1,
                       [hs EXCEPT ![h] = r.handle],
                       IF r.err # Nil
                       THEN Append(errs, names[k] \o S_COLON_SPACE \o Deref(r.err))
                       ELSE errs,
                       Append(log, [name |-> names[k], handle |-> h, err |-> r.err]),
                       failing)

\* Faulty variant of the loop below: a handle that is already closed is
\* passed over.
RECURSIVE closeLoopSkipClosed(_, _, _, _, _, _, _)
closeLoopSkipClosed(reg, names, k, hs, errs, log, failing) ==
    IF k > Len(names)
    THEN [handles |-> hs, errs |-> errs, log |-> log]
    ELSE LET h == reg[names[k]]
             r == HandleClose(hs[h], h \in failing)
         IN  IF hs[h].closed
             THEN closeLoopSkipClosed(reg, names, k + 1, hs, errs, log, failing)
             ELSE closeLoopSkipClosed(reg, names, k + 1,
                       [hs EXCEPT ![h] = r.handle],
                       IF r.err # Nil
                       THEN Append(errs, names[k] \o S_COLON_SPACE \o Deref(r.err))
                       ELSE errs,
                       Append(log, [name |-> names[k], handle |-> h, err |-> r.err]),
                       failing)

\* Faulty variant of the loop below: the last name is left out.
RECURSIVE closeLoopSkipLast(_, _, _, _, _, _, _)
closeLoopSkipLast(reg, names, k, hs, errs, log, failing) ==
    IF k > Len(names) - 1
    THEN [handles |-> hs, errs |-> errs, log |-> log]
    ELSE LET h == reg[names[k]]
             r == HandleClose(hs[h], h \in failing)
         IN  closeLoopSkipLast(reg, names, k + 1,
                       [hs EXCEPT ![h] = r.handle],
                       IF r.err # Nil
                       THEN Append(errs, names[k] \o S_COLON_SPACE \o Deref(r.err))
                       ELSE errs,
                       Append(log, [name |-> names[k], handle |-> h, err |-> r.err]),
                       failing)

\* Close, lines 364-369: the loop over the sorted names.  failing is the
\* set of handles whose connector closes with an error.
RECURSIVE closeLoop(_, _, _, _, _, _, _)
closeLoop(reg, names, k, hs, errs, log, failing) ==
    IF k > Len(names)
    THEN [handles |-> hs, errs |-> errs, log |-> log]
    ELSE LET h == reg[names[k]]
             r == HandleClose(hs[h], h \in failing)
         IN  closeLoop(reg, names, k + 1,
                       [hs EXCEPT ![h] = r.handle],
                       IF r.err # Nil
                       THEN Append(errs, names[k] \o S_COLON_SPACE \o Deref(r.err))
                       ELSE errs,
                       Append(log, [name |-> names[k], handle |-> h, err |-> r.err]),
                       failing)

\* Faulty variant of the result below: only the first error is returned.
CloseErrorFirstOnly(errs) ==
    IF Len(errs) > 0
    THEN Ptr(S_FAILED_TO_CLOSE \o errs[1])
    ELSE Nil

\* Close, lines 371-375: the error returned for the collected errs.
CloseError(errs) ==
    IF Len(errs) > 0
    THEN Ptr(S_FAILED_TO_CLOSE \o Join(errs, S_COMMA_SPACE))
    ELSE Nil

\* Faulty variant of the lookup below: names compared without case.
GetResultFoldCase(reg, name) ==
    IF \E n \in DOMAIN reg : ToUpper(n) = ToUpper(name)
    THEN [name |-> name,
          conn |-> reg[CHOOSE n \in DOMAIN reg : ToUpper(n) = ToUpper(name)],
          err |-> Nil]
    ELSE [name |-> name, conn |-> 0, err |-> Ptr(S_UNKNOWN_NAME \o name)]

\* Get, lines 343-350.
GetResult(reg, name) ==
    IF name \in DOMAIN reg
    THEN [name |-> name, conn |-> reg[name], err |-> Nil]
    ELSE [name |-> name, conn |-> 0, err |-> Ptr(S_UNKNOWN_NAME \o name)]

\* Faulty variant of the result below: the first value is left out.
ListResultSkipFirst(reg, keys) == [k \in 1..(Len(keys) - 1) |-> reg[keys[k + 1]]]

\* List, line 354: maps.Values for the iteration order keys of the map.
ListResult(reg, keys) == [k \in 1..Len(keys) |-> reg[keys[k]]]

\* The orders in which a map with the key set S can be iterated.
Orders(S) ==
    { q \in [1..Cardinality(S) -> S] : \A i, j \in 1..Cardinality(S) : i # j => q[i] # q[j] }

\* The names Get is called with: registered names, a prefix of one, one in
\* another case, and one that is in no configuration.
GetNames == { <<"f","o","o">>, <<"b","a","r">>, <<"b","a","z">>,
              <<"f","o">>, <<"F","O","O">>, <<"q","u","x">> }

Registry == Deref(ret.conns)

\* Faulty variant of the operator below: the entries of the handles that
\* closed without error are deleted from the map.
dbsAfterCloseDeleteClosed(reg, log) ==
    LET kept == { n \in DOMAIN reg :
                    \E k \in 1..Len(log) : log[k].name = n /\ log[k].err # Nil }
    IN  [n \in kept |-> reg[n]]

\* Close, lines 358-376: the map c.dbs after the call.  The method reads
\* the keys and the values; no statement assigns to or deletes from it.
dbsAfterClose(reg, log) == reg

Get ==
    /\ pc = "Done" /\ ret.conns # Nil
    /\ \E name \in GetNames : got' = Ptr(GetResult(Registry, name))
    /\ UNCHANGED <<config, env, drivers, pc, idx, db, dbs, handles, opens, ret>>
    /\ UNCHANGED <<closes, closeCalls, closeRet, listed, used, calls, codec, logger>>

List ==
    /\ pc = "Done" /\ ret.conns # Nil
    /\ \E keys \in Orders(DOMAIN Registry) : listed' = Ptr(ListResult(Registry, keys))
    /\ UNCHANGED <<config, env, drivers, pc, idx, db, dbs, handles, opens, ret>>
    /\ UNCHANGED <<closes, closeCalls, closeRet, got, used, calls, codec, logger>>

\* Close, lines 358-376.  db.Close() on a nil handle dereferences nil and
\* panics.
Close ==
    /\ pc = "Done" /\ ret.conns # Nil
    /\ closeCalls < MaxCloses
    /\ IF \E n \in DOMAIN Registry : Registry[n] = 0
       THEN /\ pc' = "Panic"
            /\ UNCHANGED <<handles, closes, closeRet, ret, closeCalls>>
       ELSE /\ \E failing \in SUBSET (1..Len(handles)) :
                 \E r \in { closeLoop(Registry, SortStrings(DOMAIN Registry), 1,
                                      handles, <<>>, <<>>, failing) } :
                     /\ handles' = r.handles
                     /\ closes' = r.log
                     /\ closeRet' = CloseError(r.errs)
                     /\ ret' = [ret EXCEPT !.conns = Ptr(dbsAfterClose(Registry, r.log))]
            /\ closeCalls' = closeCalls + 1
            /\ pc' = pc
    /\ UNCHANGED <<config, env, drivers, idx, db, dbs, opens>>
    /\ UNCHANGED <<got, listed, used, calls, codec, logger>>

\* The handles the caller holds: those the last Get and List returned.
Obtained ==
    (IF got # Nil /\ Deref(got).err = Nil THEN {Deref(got).conn} ELSE {})
    \cup (IF listed # Nil THEN {Deref(listed)[k] : k \in 1..Len(Deref(listed))} ELSE {})

\* (*sql.DB).Ping on an obtained handle: "sql: database is closed" on a
\* closed handle; otherwise the driver answers or fails.
Use ==
    /\ pc = "Done" /\ ret.conns # Nil
    /\ \E h \in Obtained : \E ok \in BOOLEAN :
         used' = Ptr([handle |-> h, afterClose |-> closeCalls > 0,
                      err |-> IF handles[h].closed THEN Ptr(ErrDBClosed)
                              ELSE IF ok THEN Nil ELSE Ptr("driver: bad connection")])
    /\ UNCHANGED <<config, env, drivers, pc, idx, db, dbs, handles, opens, ret>>
    /\ UNCHANGED <<closes, closeCalls, closeRet, got, listed, calls, codec, logger>>

\* Open and the three methods of the registry.
NextCalls ==
    \/ Next
    \/ Get
    \/ List
    \/ Close

SpecCalls == Init /\ [][NextCalls]_vars

NextRegistry ==
    \/ Next
    \/ Get
    \/ List
    \/ Close
    \/ Use

\* DSN configurations of one to three specs with distinct names.
RegistryNames == { <<"f","o","o">>, <<"b","a","r">>, <<"b","a","z">> }
RegistryConnection(n) ==
    [Name |-> n, IsMaster |-> FALSE, IsReadOnly |-> FALSE,
     Parameters |-> <<>>, ConnectionPool |-> NoPool]

RegistryConfigValues ==
    { [DSN |-> <<"r","@","/","f">>, Cluster |-> <<>>, HACluster |-> <<>>,
       Schema |-> <<>>,
       Connections |-> [k \in 1..Len(q) |-> RegistryConnection(q[k])]] :
      q \in UNION { Orders(S) : S \in (SUBSET RegistryNames) \ {{}} } }

\* The registered drivers: none, or both.
InitRegistry == InitWith(RegistryConfigValues, {"full"}) /\ drivers # {"mysql"}

SpecRegistry == InitRegistry /\ [][NextRegistry]_vars

(* ------------------------------------------------------------------ *)
(* Get and List called by concurrent callers.  A Get is one read of the  *)
(* map; a List reads the map entry by entry, and the steps of the        *)
(* callers interleave.                                                   *)
(* ------------------------------------------------------------------ *)
\* Faulty variant of the step below: a name that is not found is stored
\* in the map with the nil handle.
getStepInsertMiss(reg, name) ==
    [dbs |-> IF name \in DOMAIN reg THEN reg ELSE Put(reg, name, 0),
     result |-> GetResult(reg, name)]

\* Get, line 344: the read c.dbs[name], and the map after it.
getStep(reg, name) == [dbs |-> reg, result |-> GetResult(reg, name)]

\* maps.Values, one iteration: the value under key is appended to the
\* result; the map after it.
valuesStep(reg, key, out) == [dbs |-> reg, out |-> Append(out, reg[key])]

\* The names the concurrent callers ask for.
ConcurrentGetNames == { <<"f","o","o">>, <<"b","a","r">>, <<"q","u","x">> }

openVars == <<config, env, drivers, pc, idx, db, dbs, handles, opens>>
seqVars == <<closes, closeCalls, closeRet, got, listed, used, codec, logger>>

CallerGet(p) ==
    /\ pc = "Done" /\ ret.conns # Nil
    /\ calls[p].state = "idle"
    /\ \E name \in ConcurrentGetNames :
         LET r == getStep(Registry, name)
         IN  /\ calls' = [calls EXCEPT ![p] =
                            [op |-> "Get", state |-> "returned", name |-> name,
                             keys |-> <<>>, out |-> <<r.result.conn>>,
                             err |-> r.result.err]]
             /\ ret' = [ret EXCEPT !.conns = Ptr(r.dbs)]
    /\ UNCHANGED <<openVars, seqVars>>

\* List, line 354: maps.Values starts a range over the map.
CallerListStart(p) ==
    /\ pc = "Done" /\ ret.conns # Nil
    /\ calls[p].state = "idle"
    /\ \E keys \in Orders(DOMAIN Registry) :
         calls' = [calls EXCEPT ![p] =
                     [op |-> "List", state |-> "running", name |-> <<>>,
                      keys |-> keys, out |-> <<>>, err |-> Nil]]
    /\ UNCHANGED <<openVars, seqVars, ret>>

\* One iteration of the range, or its end and the return of the slice.
CallerListStep(p) ==
    /\ pc = "Done" /\ ret.conns # Nil
    /\ calls[p].state = "running"
    /\ LET c == calls[p]
           k == Len(c.out) + 1
       IN  IF k > Len(c.keys)
           THEN /\ calls' = [calls EXCEPT ![p].state = "returned"]
                /\ ret' = ret
           ELSE LET r == valuesStep(Registry, c.keys[k], c.out)
                IN  /\ calls' = [calls EXCEPT ![p].out = r.out]
                    /\ ret' = [ret EXCEPT !.conns = Ptr(r.dbs)]
    /\ UNCHANGED <<openVars, seqVars>>

\* The caller takes the result; it may call again.
CallerReturn(p) ==
    /\ calls[p].state = "returned"
    /\ calls' = [calls EXCEPT ![p] = NoCall]
    /\ UNCHANGED <<openVars, seqVars, ret>>

NextConcurrent ==
    \/ Next
    \/ \E p \in Callers : CallerGet(p)
    \/ \E p \in Callers : CallerListStart(p)
    \/ \E p \in Callers : CallerListStep(p)
    \/ \E p \in Callers : CallerReturn(p)

InitConcurrent == InitRegistry

SpecConcurrent == InitConcurrent /\ [][NextConcurrent]_vars

(* ------------------------------------------------------------------ *)
(* Duration and its JSON form.  A duration is counted in milliseconds,   *)
(* the finest unit of the texts below; the units ns and us and the       *)
(* digits they would print are left out.                                 *)
(* ------------------------------------------------------------------ *)
Millisecond == 1
Second == 1000 * Millisecond
Minute == 60 * Second
Hour == 60 * Minute

Digits == <<"0","1","2","3","4","5","6","7","8","9">>
IsDigit(c) == \E k \in 1..10 : Digits[k] = c
DigitValue(c) == (CHOOSE k \in 1..10 : Digits[k] = c) - 1
Quote == "\""

\* strconv-style decimal text of the natural number n.
RECURSIVE FormatInt(_)
FormatInt(n) ==
    IF n < 10 THEN <<Digits[n + 1]>>
    ELSE FormatInt(n \div 10) \o <<Digits[(n % 10) + 1]>>

\* fmtFrac for the milliseconds ms of a second: ".5", ".25", ".001"; no
\* text when ms is 0 (trailing zeros are not printed).
fmtFrac(ms) ==
    IF ms = 0 THEN <<>>
    ELSE LET d1 == ms \div 100
             d2 == (ms \div 10) % 10
             d3 == ms % 10
         IN  <<".">> \o <<Digits[d1 + 1]>>
                 \o (IF d2 = 0 /\ d3 = 0 THEN <<>> ELSE <<Digits[d2 + 1]>>)
                 \o (IF d3 = 0 THEN <<>> ELSE <<Digits[d3 + 1]>>)

\* Faulty variant of the text below: the fraction of the seconds is not
\* printed.
DurationStringNoFraction(d) ==
    IF d = 0 THEN <<"0","s">>
    ELSE LET u == IF d < 0 THEN 0 - d ELSE d
             sign == IF d < 0 THEN <<"-">> ELSE <<>>
         IN  IF u < Second
             THEN sign \o FormatInt(u \div Millisecond) \o <<"m","s">>
             ELSE LET secs == u \div Second
                      mins == secs \div 60
                      hours == mins \div 60
                  IN  sign
                      \o (IF hours > 0 THEN FormatInt(hours) \o <<"h">> ELSE <<>>)
                      \o (IF mins > 0 THEN FormatInt(mins % 60) \o <<"m">> ELSE <<>>)
                      \o FormatInt(secs % 60) \o <<"s">>

\* time.Duration.String: "0s"; below a second the count of the largest
\* unit that fits ("100ms"); else hours, minutes and seconds, the leading
\* zero units left out and the later ones printed ("10m0s", "1h0m0s").
DurationString(d) ==
    IF d = 0 THEN <<"0","s">>
    ELSE LET u == IF d < 0 THEN 0 - d ELSE d
             sign == IF d < 0 THEN <<"-">> ELSE <<>>
         IN  IF u < Second
             THEN sign \o FormatInt(u \div Millisecond) \o <<"m","s">>
             ELSE LET secs == u \div Second
                      mins == secs \div 60
                      hours == mins \div 60
                  IN  sign
                      \o (IF hours > 0 THEN FormatInt(hours) \o <<"h">> ELSE <<>>)
                      \o (IF mins > 0 THEN FormatInt(mins % 60) \o <<"m">> ELSE <<>>)
                      \o FormatInt(secs % 60) \o fmtFrac(u % Second) \o <<"s">>

\* leadingInt and leadingFraction: the number of leading digits of s, and
\* the value of a text of digits.
LeadingDigits(s) ==
    CHOOSE n \in 0..Len(s) :
        /\ \A k \in 1..n : IsDigit(s[k])
        /\ n < Len(s) => ~IsDigit(s[n + 1])

RECURSIVE DigitsValue(_)
DigitsValue(t) ==
    IF Len(t) = 0 THEN 0
    ELSE 10 * DigitsValue(SubSeq(t, 1, Len(t) - 1)) + DigitValue(t[Len(t)])

RECURSIVE Pow10(_)
Pow10(n) == IF n = 0 THEN 1 ELSE 10 * Pow10(n - 1)

\* The unit of a term: the characters up to the next '.' or digit.
LeadingUnit(s) ==
    CHOOSE n \in 0..Len(s) :
        /\ \A k \in 1..n : ~IsDigit(s[k]) /\ s[k] # "."
        /\ n < Len(s) => (IsDigit(s[n + 1]) \/ s[n + 1] = ".")

\* unitMap, from the millisecond up.
UnitNames == { <<"m","s">>, <<"s">>, <<"m">>, <<"h">> }
unitMap(u) ==
    IF u = <<"m","s">> THEN Millisecond
    ELSE IF u = <<"s">> THEN Second
    ELSE IF u = <<"m">> THEN Minute
    ELSE Hour

NotParsed == [ok |-> FALSE, value |-> 0]

\* time.ParseDuration, the loop over the terms [0-9]*(\.[0-9]*)?[a-z]+ :
\* d is the sum of the terms consumed so far.
RECURSIVE parseTerms(_, _)
parseTerms(s, d) ==
    IF Len(s) = 0 THEN [ok |-> TRUE, value |-> d]
    ELSE IF ~(s[1] = "." \/ IsDigit(s[1])) THEN NotParsed
    ELSE LET pl == LeadingDigits(s)
             v == DigitsValue(SubSeq(s, 1, pl))
             s1 == SubSeq(s, pl + 1, Len(s))
             dot == Len(s1) > 0 /\ s1[1] = "."
             s2 == IF dot THEN Tail(s1) ELSE s1
             fl == IF dot THEN LeadingDigits(s2) ELSE 0
             f == DigitsValue(SubSeq(s2, 1, fl))
             s3 == SubSeq(s2, fl + 1, Len(s2))
             ul == LeadingUnit(s3)
             u == SubSeq(s3, 1, ul)
         IN  IF pl = 0 /\ fl = 0 THEN NotParsed
             ELSE IF ul = 0 THEN NotParsed
             ELSE IF u \notin UnitNames THEN NotParsed
             ELSE parseTerms(SubSeq(s3, ul + 1, Len(s3)),
                             d + v * unitMap(u) + (f * unitMap(u)) \div Pow10(fl))

\* time.ParseDuration: an optional sign, then "0" or one or more terms.
ParseDuration(s) ==
    LET signed == Len(s) > 0 /\ (s[1] = "-" \/ s[1] = "+")
        neg == signed /\ s[1] = "-"
        body == IF signed THEN Tail(s) ELSE s
    IN  IF body = <<"0">> THEN [ok |-> TRUE, value |-> 0]
        ELSE IF Len(body) = 0 THEN NotParsed
        ELSE LET r == parseTerms(body, 0)
             IN  IF r.ok /\ neg THEN [ok |-> TRUE, value |-> 0 - r.value] ELSE r

\* json.Marshal of a string without characters to escape.
jsonString(t) == <<Quote>> \o t \o <<Quote>>

S_NULL == <<"n","u","l","l">>

\* json.Unmarshal into a string variable: the text of a string literal,
\* the zero string for null, an error for any other JSON text.
jsonStringValue(bytes) ==
    IF bytes = S_NULL THEN [ok |-> TRUE, value |-> <<>>]
    ELSE IF /\ Len(bytes) >= 2
            /\ bytes[1] = Quote /\ bytes[Len(bytes)] = Quote
            /\ \A k \in 2..(Len(bytes) - 1) : bytes[k] # Quote /\ bytes[k] # "\\"
    THEN [ok |-> TRUE, value |-> SubSeq(bytes, 2, Len(bytes) - 1)]
    ELSE [ok |-> FALSE, value |-> <<>>]

ErrJSON == "json: cannot unmarshal into Go value of type string"
ErrInvalidDuration == "invalid duration: %q"

\* Duration.MarshalJSON, lines 116-118.
MarshalJSON(d) == jsonString(DurationString(d))

\* Duration.UnmarshalJSON, lines 122-134: the duration, or the error.
UnmarshalJSON(bytes) ==
    LET j == jsonStringValue(bytes)
    IN  IF ~j.ok THEN [value |-> Nil, err |-> Ptr(Err(ErrJSON, <<>>))]
        ELSE LET r == ParseDuration(j.value)
             IN  IF ~r.ok
                 THEN [value |-> Nil, err |-> Ptr(Err(ErrInvalidDuration, j.value))]
                 ELSE [value |-> Ptr(r.value), err |-> Nil]

\* The texts and values the Duration methods are applied to.
MaxTerms == 2

DurationTerms ==
    { <<"1","0","m">>, <<"1","0","0","m","s">>, <<"1","h">>, <<"6","0","s">>,
      <<"1",".","5","s">>, <<"5","s">>, <<"0","s">>, <<"1","m">> }

RECURSIVE TermTexts(_)
TermTexts(n) ==
    IF n = 0 THEN { <<>> }
    ELSE { t \o r : t \in DurationTerms, r \in TermTexts(n - 1) }

DurationTexts ==
    { sign \o t : sign \in { <<>>, <<"-">>, <<"+">> },
                  t \in UNION { TermTexts(n) : n \in 1..MaxTerms } }
    \cup { <<"0">>, <<>>, <<"f","o","o">>, <<"1","0">>, <<".","s">>, <<"5","x">> }

JSONTexts ==
    { jsonString(t) : t \in DurationTexts } \cup { S_NULL, <<"1","0">> }

DurationValues ==
    LET pos == { h * Hour + m * Minute + sec * Second + ms * Millisecond :
                   h \in {0, 1, 25}, m \in {0, 1, 10, 59},
                   sec \in {0, 1, 5, 59}, ms \in {0, 1, 100, 250, 999} }
    IN  pos \cup { 0 - v : v \in pos }

\* The zero Config: no Open call is made while a text is parsed.
ZeroConfig ==
    [DSN |-> <<>>, Cluster |-> <<>>, HACluster |-> <<>>, Schema |-> <<>>,
     Connections |-> <<>>]

\* Every variable but codec, before any call.
InitIdle ==
    /\ config = ZeroConfig
    /\ env = "full"
    /\ drivers = {}
    /\ pc = "Validate"
    /\ idx = 0
    /\ db = 0
    /\ dbs = <<>>
    /\ handles = <<>>
    /\ opens = <<>>
    /\ ret = NoReturn
    /\ closes = <<>>
    /\ closeCalls = 0
    /\ closeRet = Nil
    /\ got = Nil
    /\ listed = Nil
    /\ used = Nil
    /\ calls = [p \in Callers |-> NoCall]

\* A JSON text to parse and then serialize, or a value to serialize and
\* then parse.
InitDuration ==
    /\ InitIdle
    /\ logger = <<>>
    /\ \/ \E t \in JSONTexts :
            codec = [phase |-> "parse", origin |-> "text", text0 |-> Ptr(t),
                     value0 |-> Nil, text |-> Nil, value |-> Nil, err |-> Nil]
       \/ \E d \in DurationValues :
            codec = [phase |-> "format", origin |-> "value", text0 |-> Nil,
                     value0 |-> Ptr(d), text |-> Nil, value |-> Nil, err |-> Nil]

nonCodecVars ==
    <<config, env, drivers, pc, idx, db, dbs, handles, opens, ret,
      closes, closeCalls, closeRet, got, listed, used, calls, logger>>

DurationUnmarshalJSON ==
    /\ codec.phase = "parse"
    /\ LET bytes == IF codec.origin = "text" THEN Deref(codec.text0)
                    ELSE Deref(codec.text)
           r == UnmarshalJSON(bytes)
       IN  codec' = [codec EXCEPT
                       !.value = r.value,
                       !.err = r.err,
                       !.phase = IF codec.origin = "text" /\ r.err = Nil
                                 THEN "format" ELSE "done"]
    /\ UNCHANGED nonCodecVars

DurationMarshalJSON ==
    /\ codec.phase = "format"
    /\ LET d == IF codec.origin = "value" THEN Deref(codec.value0)
                ELSE Deref(codec.value)
       IN  codec' = [codec EXCEPT
                       !.text = Ptr(MarshalJSON(d)),
                       !.phase = IF codec.origin = "value" THEN "parse" ELSE "done"]
    /\ UNCHANGED nonCodecVars

NextDuration ==
    \/ DurationUnmarshalJSON
    \/ DurationMarshalJSON

SpecDuration == InitDuration /\ [][NextDuration]_vars

(* ------------------------------------------------------------------ *)
(* Config and its JSON form.  A JSON document is a tree: jt is the type  *)
(* of the node and v its content (for an object, a record of the keys    *)
(* present; for an array, a sequence).                                   *)
(* ------------------------------------------------------------------ *)
jNull == [jt |-> "null"]
jString(t) == [jt |-> "string", v |-> t]
jNumber(n) == [jt |-> "number", v |-> n]
jBool(b) == [jt |-> "bool", v |-> b]
jArray(q) == [jt |-> "array", v |-> q]
jObject(o) == [jt |-> "object", v |-> o]

\* The JSON text of a leaf, as handed to an UnmarshalJSON method.
jText(node) ==
    IF node.jt = "string" THEN jsonString(node.v)
    ELSE IF node.jt = "number" THEN FormatInt(node.v)
    ELSE S_NULL

\* json.Marshal of a *Duration field: null for nil, else MarshalJSON.
encodeDuration(p) ==
    IF p = Nil THEN jNull
    ELSE jString(jsonStringValue(MarshalJSON(Deref(p))).value)

\* json.Marshal of a *int field.
encodeInt(p) == IF p = Nil THEN jNull ELSE jNumber(Deref(p))

\* json.Marshal of a ConnectionPool, by the tags of lines 101-107.
encodePool(pool) ==
    jObject([conn_max_lifetime |-> encodeDuration(pool.ConnMaxLifetime),
             max_idle_connections |-> encodeInt(pool.MaxIdleConnections),
             max_open_connections |-> encodeInt(pool.MaxOpenConnections),
             conn_max_idle_time |-> encodeDuration(pool.ConnMaxIdleTime)])

\* json.Marshal of a Connection, by the tags of lines 83-95.
encodeConnection(cc) ==
    jObject([name |-> jString(cc.Name),
             is_master |-> jBool(cc.IsMaster),
             is_read_only |-> jBool(cc.IsReadOnly),
             parameters |-> jString(cc.Parameters),
             connection_pool |-> encodePool(cc.ConnectionPool)])

\* json.Marshal of a Config, by the tags of lines 27-77.
encodeConfig(c) ==
    jObject([dsn |-> jString(c.DSN),
             cluster |-> jString(c.Cluster),
             ha_cluster |-> jString(c.HACluster),
             schema |-> jString(c.Schema),
             connections |-> jArray([k \in 1..Len(c.Connections) |->
                                        encodeConnection(c.Connections[k])])])

Decoded(v) == [ok |-> TRUE, value |-> v]
NotDecoded == [ok |-> FALSE, value |-> Nil]

\* The node under key, or null when the object does not have the key: an
\* absent key and a null both leave the field at its zero value.
Field(o, key) == IF key \in DOMAIN o THEN o[key] ELSE jNull

\* json.Unmarshal into a *Duration field: nil for null (UnmarshalJSON is
\* not called), else a new Duration set by UnmarshalJSON.
decodeDuration(node) ==
    IF node.jt = "null" THEN Decoded(Nil)
    ELSE LET set(r) == IF r.err # Nil THEN NotDecoded ELSE Decoded(r.value)
         IN  set(UnmarshalJSON(jText(node)))

\* Faulty variant of the operator below: the field is a plain int, and a
\* null or an absent key leaves it 0.
decodeIntNoPointer(node) ==
    IF node.jt = "null" THEN Decoded(Ptr(0))
    ELSE IF node.jt = "number" THEN Decoded(Ptr(node.v))
    ELSE NotDecoded

\* json.Unmarshal into a *int field.
decodeInt(node) ==
    IF node.jt = "null" THEN Decoded(Nil)
    ELSE IF node.jt = "number" THEN Decoded(Ptr(node.v))
    ELSE NotDecoded

decodeString(node) ==
    IF node.jt = "null" THEN Decoded(<<>>)
    ELSE IF node.jt = "string" THEN Decoded(node.v)
    ELSE NotDecoded

decodeBool(node) ==
    IF node.jt = "null" THEN Decoded(FALSE)
    ELSE IF node.jt = "bool" THEN Decoded(node.v)
    ELSE NotDecoded

\* json.Unmarshal into a ConnectionPool.
decodePool(node) ==
    IF node.jt = "null" THEN Decoded(NoPool)
    ELSE IF node.jt # "object" THEN NotDecoded
    ELSE LET set(l, i, o, t) ==
                 IF l.ok /\ i.ok /\ o.ok /\ t.ok
                 THEN Decoded([ConnMaxLifetime |-> l.value,
                               MaxIdleConnections |-> i.value,
                               MaxOpenConnections |-> o.value,
                               ConnMaxIdleTime |-> t.value])
                 ELSE NotDecoded
         IN  set(decodeDuration(Field(node.v, "conn_max_lifetime")),
                 decodeInt(Field(node.v, "max_idle_connections")),
                 decodeInt(Field(node.v, "max_open_connections")),
                 decodeDuration(Field(node.v, "conn_max_idle_time")))

\* json.Unmarshal into a Connection.
decodeConnection(node) ==
    IF node.jt # "object" THEN NotDecoded
    ELSE LET set(n, m, r, p, cp) ==
                 IF n.ok /\ m.ok /\ r.ok /\ p.ok /\ cp.ok
                 THEN Decoded([Name |-> n.value, IsMaster |-> m.value,
                               IsReadOnly |-> r.value, Parameters |-> p.value,
                               ConnectionPool |-> cp.value])
                 ELSE NotDecoded
         IN  set(decodeString(Field(node.v, "name")),
                 decodeBool(Field(node.v, "is_master")),
                 decodeBool(Field(node.v, "is_read_only")),
                 decodeString(Field(node.v, "parameters")),
                 decodePool(Field(node.v, "connection_pool")))

decodeConnections(node) ==
    IF node.jt = "null" THEN Decoded(<<>>)
    ELSE IF node.jt # "array" THEN NotDecoded
    ELSE LET set(rs) ==
                 IF \A k \in DOMAIN rs : rs[k].ok
                 THEN Decoded([k \in DOMAIN rs |-> rs[k].value])
                 ELSE NotDecoded
         IN  set([k \in 1..Len(node.v) |-> decodeConnection(node.v[k])])

\* json.Unmarshal into a Config.
decodeConfig(node) ==
    IF node.jt # "object" THEN NotDecoded
    ELSE LET set(d, c, h, sc, cs) ==
                 IF d.ok /\ c.ok /\ h.ok /\ sc.ok /\ cs.ok
                 THEN Decoded([DSN |-> d.value, Cluster |-> c.value,
                               HACluster |-> h.value, Schema |-> sc.value,
                               Connections |-> cs.value])
                 ELSE NotDecoded
         IN  set(decodeString(Field(node.v, "dsn")),
                 decodeString(Field(node.v, "cluster")),
                 decodeString(Field(node.v, "ha_cluster")),
                 decodeString(Field(node.v, "schema")),
                 decodeConnections(Field(node.v, "connections")))

\* The pool settings, connections and configurations that are serialized.
CodecPoolValues ==
    [ConnMaxLifetime : {Nil, Ptr(0), Ptr(10 * Minute)},
     MaxIdleConnections : {Nil, Ptr(0), Ptr(100)},
     MaxOpenConnections : {Nil, Ptr(100)},
     ConnMaxIdleTime : {Nil, Ptr(1500 * Millisecond)}]

CodecFirstConnections ==
    { [Name |-> <<"f","o">>, IsMaster |-> f, IsReadOnly |-> f,
       Parameters |-> IF f THEN <<"p","=","1">> ELSE <<>>,
       ConnectionPool |-> pool] : f \in BOOLEAN, pool \in CodecPoolValues }

CodecSecondConnections ==
    { [Name |-> <<"b","a">>, IsMaster |-> FALSE, IsReadOnly |-> TRUE,
       Parameters |-> <<>>, ConnectionPool |-> pool] : pool \in CodecPoolValues }

CodecConnectionLists ==
    { <<>> } \cup { <<a>> : a \in CodecFirstConnections }
             \cup { <<a, b>> : a \in CodecFirstConnections, b \in CodecSecondConnections }

CodecConfigValues ==
    { [DSN |-> <<>>, Cluster |-> <<"e","8">>, HACluster |-> <<>>,
       Schema |-> <<"b","a">>, Connections |-> q] : q \in CodecConnectionLists }
    \cup { [DSN |-> <<"r","@","/","f">>, Cluster |-> <<>>, HACluster |-> <<>>,
            Schema |-> <<>>, Connections |-> q] :
           q \in { <<>> } \cup { <<a>> : a \in CodecFirstConnections } }

\* The documents that are parsed first: one connection whose
\* connection_pool has any of its keys, or is itself left out, as in
\* TestConfigAsJSON_DefaultConnectionPool.
PoolKeys ==
    { "conn_max_lifetime", "max_idle_connections", "max_open_connections",
      "conn_max_idle_time" }

PoolDocField(key) ==
    IF key = "conn_max_lifetime" THEN jString(<<"1","0","m">>)
    ELSE IF key = "conn_max_idle_time" THEN jString(<<"1","m">>)
    ELSE jNumber(100)

ConnectionDocs ==
    { jObject([name |-> jString(<<"f","o">>), is_master |-> jBool(TRUE),
               parameters |-> jString(<<"p","=","1">>)]) }
    \cup { jObject([name |-> jString(<<"f","o">>), is_master |-> jBool(TRUE),
                    parameters |-> jString(<<"p","=","1">>),
                    connection_pool |-> jObject([k \in K |-> PoolDocField(k)])]) :
           K \in SUBSET PoolKeys }

CodecDocValues ==
    { jObject([cluster |-> jString(<<"e","8">>), schema |-> jString(<<"b","a">>),
               connections |-> jArray(<<cd>>)]) : cd \in ConnectionDocs }
    \cup { jObject([dsn |-> jNumber(1)]) }

\* A Config to serialize and then parse, or a document to parse, serialize
\* and parse again.
InitConfigJSON ==
    /\ InitIdle
    /\ logger = <<>>
    /\ \/ \E c \in CodecConfigValues :
            codec = [phase |-> "format", origin |-> "value", text0 |-> Nil,
                     value0 |-> Ptr(c), text |-> Nil, value |-> Nil, err |-> Nil]
       \/ \E d \in CodecDocValues :
            codec = [phase |-> "parse0", origin |-> "text", text0 |-> Ptr(d),
                     value0 |-> Nil, text |-> Nil, value |-> Nil, err |-> Nil]

ErrJSONConfig == "json: cannot unmarshal into Go value of type mysqlconnect.Config"

\* json.Unmarshal(text, &config): of the first document, or of the
\* serialized one.
ConfigUnmarshal ==
    /\ codec.phase \in {"parse0", "parse"}
    /\ \E first \in { codec.phase = "parse0" } :
       \E r \in { decodeConfig(Deref(IF first THEN codec.text0 ELSE codec.text)) } :
           IF ~r.ok
           THEN codec' = [codec EXCEPT !.err = Ptr(Err(ErrJSONConfig, <<>>)),
                                       !.phase = "done"]
           ELSE IF first
           THEN codec' = [codec EXCEPT !.value0 = Ptr(r.value), !.phase = "format"]
           ELSE codec' = [codec EXCEPT !.value = Ptr(r.value), !.phase = "done"]
    /\ UNCHANGED nonCodecVars

\* json.Marshal(config)
ConfigMarshal ==
    /\ codec.phase = "format"
    /\ codec' = [codec EXCEPT !.text = Ptr(encodeConfig(Deref(codec.value0))),
                              !.phase = "parse"]
    /\ UNCHANGED nonCodecVars

NextConfigJSON ==
    \/ ConfigUnmarshal
    \/ ConfigMarshal

SpecConfigJSON == InitConfigJSON /\ [][NextConfigJSON]_vars

(* ------------------------------------------------------------------ *)
(* The logger.  logger.events is what the calls have done, in order: a   *)
(* line printed at a level, a call of the injected exit function with    *)
(* its code, a panic; each event carries the number of its call.         *)
(* ------------------------------------------------------------------ *)
MaxLogCalls == 3

\* The level constants of lines 21-28.
gError == "Error"
fatal == "Fatal"
panico == "Panic"
info == "Info"
warning == "warning"
debug == "Debug"

LoggerMethods ==
    { "Fatal", "Fatalf", "Panic", "Panicf", "Error", "Errorf",
      "Info", "Infof", "Warning", "Warningf", "Debug", "Debugf" }

\* The function given to NewLogger: one that returns (a mock), one that
\* ends the process (DefaultOSExit), or none.
ExitFuncs == { "returns", "exits", "nil" }

Printed(level) == [kind |-> "print", arg |-> level]
Exited(code) == [kind |-> "exit", arg |-> code]
Panicked == [kind |-> "panic", arg |-> ""]

\* l.osExitFunc(1): the call of the function, or the panic of calling nil.
osExitFunc(fn, code) == IF fn = "nil" THEN Panicked ELSE Exited(code)

\* Faulty variant of the methods below: Fatalf prints and returns.
methodEventsFatalfNoExit(method, fn, modeDebug) ==
    IF method = "Fatal" THEN << Printed(fatal), osExitFunc(fn, 1) >>
    ELSE IF method = "Fatalf" THEN << Printed(fatal) >>
    ELSE IF method \in {"Panic", "Panicf"} THEN << Printed(panico), Panicked >>
    ELSE IF method \in {"Error", "Errorf"} THEN << Printed(gError) >>
    ELSE IF method \in {"Info", "Infof"} THEN << Printed(info) >>
    ELSE IF method \in {"Warning", "Warningf"} THEN << Printed(warning) >>
    ELSE IF modeDebug THEN << Printed(debug) >>
    ELSE << >>

\* The twelve methods, lines 57-167: what a call does, in order.
methodEvents(method, fn, modeDebug) ==
    IF method \in {"Fatal", "Fatalf"} THEN << Printed(fatal), osExitFunc(fn, 1) >>
    ELSE IF method \in {"Panic", "Panicf"} THEN << Printed(panico), Panicked >>
    ELSE IF method \in {"Error", "Errorf"} THEN << Printed(gError) >>
    ELSE IF method \in {"Info", "Infof"} THEN << Printed(info) >>
    ELSE IF method \in {"Warning", "Warningf"} THEN << Printed(warning) >>
    ELSE IF modeDebug THEN << Printed(debug) >>
    ELSE << >>

\* NewLogger(fn), with MODE_DEBUG set to "true" or not.
InitLogger ==
    /\ InitIdle
    /\ codec = NoCodec
    /\ \E fn \in ExitFuncs, modeDebug \in BOOLEAN :
         logger = [osExitFunc |-> fn, modeDebug |-> modeDebug, alive |-> TRUE,
                   methods |-> <<>>, events |-> <<>>]

nonLoggerVars ==
    <<config, env, drivers, pc, idx, db, dbs, handles, opens, ret,
      closes, closeCalls, closeRet, got, listed, used, calls, codec>>

\* One call of a method of the logger.  A call of the exit function that
\* ends the process is the last thing the process does; a panic is left
\* to the caller to recover.
LoggerCall(method) ==
    /\ logger.alive
    /\ Len(logger.methods) < MaxLogCalls
    /\ LET n == Len(logger.methods) + 1
           ev == methodEvents(method, logger.osExitFunc, logger.modeDebug)
       IN  logger' = [logger EXCEPT
                        !.methods = Append(@, method),
                        !.events = @ \o [k \in 1..Len(ev) |->
                                           [call |-> n, kind |-> ev[k].kind,
                                            arg |-> ev[k].arg]],
                        !.alive = ~(logger.osExitFunc = "exits"
                                    /\ \E k \in 1..Len(ev) : ev[k].kind = "exit")]
    /\ UNCHANGED nonLoggerVars

NextLogger == \E method \in LoggerMethods : LoggerCall(method)

SpecLogger == InitLogger /\ [][NextLogger]_vars

(* ================================================================== *)
(* Properties.                                                          *)
(* ================================================================== *)
\* The five configuration invariants, as the data model states them.
NumberSet(c) ==
    Cardinality({ k \in 1..3 : <<c.DSN, c.Cluster, c.HACluster>>[k] # <<>> })
ClusterMode(c) == c.Cluster # <<>> \/ c.HACluster # <<>>
Invariant1(c) == NumberSet(c) = 1
Invariant2(c) == (c.Schema # <<>>) <=> ClusterMode(c)
Invariant3(c) == Len(c.Connections) > 0
Invariant4(c) ==
    \A j, k \in 1..Len(c.Connections) :
        j # k => c.Connections[j].Name # c.Connections[k].Name
Invariant5(c) ==
    ClusterMode(c) =>
        \A k \in 1..Len(c.Connections) :
            c.Connections[k].IsMaster \/ c.Connections[k].IsReadOnly

Violated(c) ==
    { n \in 1..5 : ~ <<Invariant1(c), Invariant2(c), Invariant3(c),
                       Invariant4(c), Invariant5(c)>>[n] }
FirstViolated(c) == CHOOSE n \in Violated(c) : \A m \in Violated(c) : n <= m

\* The invariant an error text reports (0: not a configuration error).
InvariantOf(msg) ==
    IF msg \in {ErrAllEmpty, ErrDSNExclusive, ErrClusterExclusive} THEN 1
    ELSE IF msg \in {ErrDSNSchema, ErrSchemaMissing} THEN 2
    ELSE IF msg = ErrNoConnections THEN 3
    ELSE IF msg = ErrDuplicated THEN 4
    ELSE IF msg = ErrReplicaWrite THEN 5
    ELSE 0

Returned == pc = "Done"
Rejected == Returned /\ ret.conns = Nil /\ ret.err # Nil
Accepted == Returned /\ ret.conns # Nil /\ ret.err = Nil

\* C1: for every configuration violating more than one invariant, the
\* error Open returns reports exactly the first violated invariant in the
\* priority order 1..5.
C1_FirstViolationWins ==
    (Returned /\ Cardinality(Violated(config)) > 1) =>
        /\ Rejected
        /\ InvariantOf(Deref(ret.err).msg) = FirstViolated(config)

\* C1 witness: Open has returned for a configuration with a valid mode
\* whose names are duplicated and one of whose specs is neither master nor
\* read-only, reporting the duplicate.
C1_Witness ==
    /\ Returned
    /\ Violated(config) = {4, 5}
    /\ ret.err # Nil
    /\ Deref(ret.err).msg = ErrDuplicated

\* C2: whenever Open returns a configuration error, no handle has been
\* opened (and no open attempted) during that Open call.
C2_ConfigErrorBeforeAnyOpen ==
    (Returned /\ ret.err # Nil /\ InvariantOf(Deref(ret.err).msg) # 0) =>
        (opens = <<>> /\ handles = <<>>)

\* C3: a configuration in which the number of non-empty fields among DSN,
\* Cluster and HACluster is not exactly one is rejected as soon as Open
\* acts on it, and no handle is ever opened for it.
C3_ExactlyOneMode ==
    NumberSet(config) # 1 =>
        /\ pc = "Validate" \/ Rejected
        /\ opens = <<>>
        /\ handles = <<>>

\* C3 witness: Open has rejected a configuration that sets both Cluster and
\* HACluster (and a schema and a valid connection list).
C3_Witness ==
    /\ Rejected
    /\ config.DSN = <<>> /\ config.Cluster # <<>> /\ config.HACluster # <<>>
    /\ Violated(config) = {1}

\* C4: Open accepts a configuration only if its Schema is non-empty exactly
\* when the mode is Cluster or HACluster; a DSN with a Schema, and a cluster
\* or HA cluster without one, are rejected.
C4_SchemaIffClusterMode ==
    /\ Accepted => Invariant2(config)
    /\ (Returned /\ config.DSN # <<>> /\ config.Schema # <<>>) => Rejected
    /\ (Returned /\ ClusterMode(config) /\ config.Schema = <<>>) => Rejected

\* C4 witness: Open has rejected a cluster configuration whose only defect
\* is the missing Schema.
C4_Witness ==
    /\ Rejected
    /\ config.Cluster # <<>> /\ config.Schema = <<>>
    /\ Violated(config) = {2}
    /\ Deref(ret.err).msg = ErrSchemaMissing

\* The position of the first spec whose name repeats an earlier one.
HasDuplicate(c) == ~Invariant4(c)
FirstRepeat(c) ==
    CHOOSE k \in 1..Len(c.Connections) :
        /\ \E j \in 1..(k - 1) : c.Connections[j].Name = c.Connections[k].Name
        /\ \A m \in 1..(k - 1) :
               ~\E j \in 1..(m - 1) : c.Connections[j].Name = c.Connections[m].Name

\* C5 as stated: if two specs share a name, Open fails with the error
\* naming the duplicated name, returns no registry and opens no handle.
C5_DuplicateAlwaysNamed ==
    (Returned /\ HasDuplicate(config)) =>
        /\ Rejected
        /\ ret.err = Ptr(Err(ErrDuplicated, config.Connections[FirstRepeat(config)].Name))
        /\ opens = <<>>
        /\ handles = <<>>

\* C5 amended: if two specs share a name, Open fails, returns no registry
\* and opens no handle; the error names the duplicated name (the first name
\* in list order whose repeat is encountered) when the configuration passes
\* the mode and schema checks, and reports the first violated invariant
\* otherwise.
C5_DuplicateRejected ==
    HasDuplicate(config) =>
        /\ pc = "Validate" \/ Rejected
        /\ opens = <<>>
        /\ handles = <<>>
        /\ Returned =>
             IF Invariant1(config) /\ Invariant2(config)
             THEN ret.err = Ptr(Err(ErrDuplicated,
                                    config.Connections[FirstRepeat(config)].Name))
             ELSE InvariantOf(Deref(ret.err).msg) = FirstViolated(config)

\* C5 witness: Open has rejected a DSN configuration whose only defect is a
\* repeated name, naming it.
C5_Witness ==
    /\ Rejected
    /\ Violated(config) = {4}
    /\ Deref(ret.err) = Err(ErrDuplicated, config.Connections[2].Name)
    /\ opens = <<>>

\* The specs that are neither master nor read-only.
Neither(c) ==
    { k \in 1..Len(c.Connections) :
        ~c.Connections[k].IsMaster /\ ~c.Connections[k].IsReadOnly }
FirstNeither(c) == CHOOSE k \in Neither(c) : \A m \in Neither(c) : k <= m

\* C6 as stated: in Cluster or HACluster mode a spec that is neither master
\* nor read-only makes Open fail with the 'cannot write to a replica' error
\* naming such a connection; in DSN mode the spec is accepted.
C6_ReplicaWriteAlwaysReported ==
    (Returned /\ Neither(config) # {} /\ Invariant1(config)) =>
        IF ClusterMode(config)
        THEN /\ Rejected
             /\ Deref(ret.err).msg = ErrReplicaWrite
             /\ \E k \in Neither(config) :
                    Deref(ret.err).arg = config.Connections[k].Name
        ELSE ret.err # Nil => Deref(ret.err).msg # ErrReplicaWrite

\* C6 amended: in Cluster or HACluster mode a configuration holding a spec
\* that is neither master nor read-only is always rejected; when it passes
\* the checks 1 to 4 the error is 'cannot write to a replica' naming the
\* first such spec, reached after one successful open per earlier spec,
\* unless the open of an earlier spec failed, whose error is returned
\* instead.  In DSN mode Open never returns that error.
C6_ReplicaWriteRejected ==
    (Returned /\ Neither(config) # {} /\ Invariant1(config)) =>
        IF ClusterMode(config)
        THEN /\ Rejected
             /\ (Invariant2(config) /\ Invariant3(config) /\ Invariant4(config)) =>
                  \/ /\ Deref(ret.err) =
                          Err(ErrReplicaWrite, config.Connections[FirstNeither(config)].Name)
                     /\ Len(opens) = FirstNeither(config) - 1
                     /\ \A k \in 1..Len(opens) : opens[k].ok
                  \/ /\ Deref(ret.err).msg = ErrDriverOpen
                     /\ Len(opens) < FirstNeither(config)
                     /\ ~opens[Len(opens)].ok
        ELSE ret.err # Nil => Deref(ret.err).msg # ErrReplicaWrite

\* C6 witness: a cluster configuration passing the checks 1 to 4 whose
\* second spec is neither master nor read-only has been rejected with the
\* error naming it, after the first spec's handle was opened.
C6_Witness ==
    /\ Rejected
    /\ config.Cluster # <<>>
    /\ Violated(config) = {5}
    /\ FirstNeither(config) = 2
    /\ Deref(ret.err) = Err(ErrReplicaWrite, config.Connections[2].Name)
    /\ Len(handles) = 1

\* C6 second witness state, DSN mode: a configuration with a spec that is
\* neither master nor read-only has been accepted.
C6_WitnessDSN ==
    /\ Accepted
    /\ config.DSN # <<>>
    /\ Neither(config) # {}

\* C7 as stated: a returned registry is never empty, and Open with an empty
\* connection list fails with 'no connections defined'.
C7_EmptyListAlwaysNoConnections ==
    /\ Accepted => DOMAIN Deref(ret.conns) # {}
    /\ (Returned /\ Len(config.Connections) = 0) =>
           (Rejected /\ Deref(ret.err).msg = ErrNoConnections)

\* C7 amended: a returned registry is never empty and holds only opened
\* handles; Open with an empty connection list always fails, with 'no
\* connections defined' when the configuration passes the mode and schema
\* checks and with the mode or schema error otherwise.
C7_RegistryNeverEmpty ==
    /\ Accepted =>
         /\ DOMAIN Deref(ret.conns) # {}
         /\ \A n \in DOMAIN Deref(ret.conns) : Deref(ret.conns)[n] \in 1..Len(handles)
    /\ Len(config.Connections) = 0 =>
         /\ pc = "Validate" \/ Rejected
         /\ Returned =>
              IF Invariant1(config) /\ Invariant2(config)
              THEN Deref(ret.err).msg = ErrNoConnections
              ELSE InvariantOf(Deref(ret.err).msg) \in {1, 2}

\* C7 witness: Open has rejected a configuration whose only defect is the
\* empty connection list.
C7_Witness ==
    /\ Rejected
    /\ Violated(config) = {3}
    /\ Deref(ret.err).msg = ErrNoConnections

\* The names of the specs of a configuration.
SpecNames(c) == { c.Connections[k].Name : k \in 1..Len(c.Connections) }

\* C8: in DSN mode every connection string passed to the driver, for every
\* spec whatever its Parameters, IsMaster and IsReadOnly, equals the
\* configured DSN exactly, and every handle of the returned registry was
\* opened with that string.
C8_DSNVerbatim ==
    config.DSN # <<>> =>
        /\ \A k \in 1..Len(opens) : opens[k].dsn = config.DSN
        /\ \A h \in 1..Len(handles) : handles[h].dsn = config.DSN
        /\ Accepted =>
             /\ DOMAIN Deref(ret.conns) = SpecNames(config)
             /\ Len(opens) = Len(config.Connections)
             /\ \A n \in DOMAIN Deref(ret.conns) :
                    handles[Deref(ret.conns)[n]].dsn = config.DSN

\* C8 witness: a DSN configuration of two specs, both with Parameters and
\* with different IsMaster / IsReadOnly flags, has been accepted with two
\* handles.
C8_Witness ==
    /\ Accepted
    /\ config.DSN # <<>>
    /\ Len(config.Connections) = 2
    /\ \A k \in 1..2 : config.Connections[k].Parameters # <<>>
    /\ config.Connections[1].IsMaster /\ ~config.Connections[2].IsMaster
    /\ ~config.Connections[1].IsReadOnly /\ config.Connections[2].IsReadOnly
    /\ Len(handles) = 2

\* The variable names and user names of cluster "e8", schema "ba", written
\* out as the naming convention gives them.
N_ENDPOINT == <<"D","B","_","M","Y","S","Q","L","_","E","8","_","B","A","_","B","A","_","E","N","D","P","O","I","N","T">>
N_REPLICA == <<"D","B","_","M","Y","S","Q","L","_","E","8","_","B","A","_","B","A","_","L","O","C","A","L","_","R","E","P","L","I","C","A","_","E","N","D","P","O","I","N","T">>
N_WPROD == <<"D","B","_","M","Y","S","Q","L","_","E","8","_","B","A","_","B","A","_","W","P","R","O","D">>
N_RPROD == <<"D","B","_","M","Y","S","Q","L","_","E","8","_","B","A","_","B","A","_","R","P","R","O","D">>
N_HA_WR == <<"D","B","_","H","A","_","M","Y","S","Q","L","_","E","8","_","B","A","_","B","A","_","W","R","_","E","N","D","P","O","I","N","T">>
N_HA_RO == <<"D","B","_","H","A","_","M","Y","S","Q","L","_","E","8","_","B","A","_","B","A","_","R","O","_","E","N","D","P","O","I","N","T">>
N_HA_WPROD == <<"D","B","_","H","A","_","M","Y","S","Q","L","_","E","8","_","B","A","_","B","A","_","W","P","R","O","D">>
N_HA_RPROD == <<"D","B","_","H","A","_","M","Y","S","Q","L","_","E","8","_","B","A","_","B","A","_","R","P","R","O","D">>
U_RPROD == <<"b","a","_","R","P","R","O","D">>
U_WPROD == <<"b","a","_","W","P","R","O","D">>

\* username:password@tcp(host)/ba, with ?parameters iff parameters is not "".
Expected(username, password, host, parameters) ==
    username \o <<":">> \o password \o <<"@","t","c","p","(">> \o host
             \o <<")","/">> \o <<"b","a">>
             \o (IF parameters # <<>> THEN <<"?">> \o parameters ELSE <<>>)

ValueOf(name) == Getenv(Environ(env), name)

\* C9: in Cluster mode (cluster "e8", schema "ba") the connection string
\* of every spec is username:password@tcp(host)/schema, with ?Parameters
\* appended iff Parameters is non-empty; host is the value of
\* DB_MYSQL_E8_BA_BA_ENDPOINT when IsMaster and of
\* DB_MYSQL_E8_BA_BA_LOCAL_REPLICA_ENDPOINT otherwise; username and password
\* are ba_RPROD and the value of DB_MYSQL_E8_BA_BA_RPROD when IsReadOnly,
\* ba_WPROD and the value of DB_MYSQL_E8_BA_BA_WPROD otherwise.
C9_ClusterDSN ==
    (config.Cluster = <<"e","8">> /\ config.Schema = <<"b","a">>) =>
        \A k \in 1..Len(opens) :
            LET cc == config.Connections[opens[k].spec]
            IN  opens[k].dsn =
                  Expected(IF cc.IsReadOnly THEN U_RPROD ELSE U_WPROD,
                           IF cc.IsReadOnly THEN ValueOf(N_RPROD) ELSE ValueOf(N_WPROD),
                           IF cc.IsMaster THEN ValueOf(N_ENDPOINT) ELSE ValueOf(N_REPLICA),
                           cc.Parameters)

\* C9 witness: in Cluster mode a master read-write spec with parameters was
\* opened with ba_WPROD:w1@tcp(h1)/ba?t=1 and a replica read-only spec
\* without parameters with ba_RPROD:r1@tcp(h2)/ba.
C9_Witness ==
    /\ Accepted
    /\ config.Cluster # <<>>
    /\ Len(opens) = 2
    /\ config.Connections[1].IsMaster /\ ~config.Connections[1].IsReadOnly
    /\ ~config.Connections[2].IsMaster /\ config.Connections[2].IsReadOnly
    /\ opens[1].dsn = <<"b","a","_","W","P","R","O","D",":","w","1","@","t","c","p","(","h","1",")","/","b","a","?","t","=","1">>
    /\ opens[2].dsn = <<"b","a","_","R","P","R","O","D",":","r","1","@","t","c","p","(","h","2",")","/","b","a">>

\* C10 as stated: in HACluster mode, for every spec with IsReadOnly set, the
\* username is ba_RPROD, the password the value of
\* DB_HA_MYSQL_E8_BA_BA_RPROD and the host the value of
\* DB_HA_MYSQL_E8_BA_BA_RO_ENDPOINT.
C10_ReadOnlyAlwaysROEndpoint ==
    (config.HACluster = <<"e","8">> /\ config.Schema = <<"b","a">>) =>
        \A k \in 1..Len(opens) :
            LET cc == config.Connections[opens[k].spec]
            IN  cc.IsReadOnly =>
                  opens[k].dsn = Expected(U_RPROD, ValueOf(N_HA_RPROD),
                                          ValueOf(N_HA_RO), cc.Parameters)

\* C10 amended: in HACluster mode, for every spec with IsReadOnly set, the
\* username is ba_RPROD and the password the value of
\* DB_HA_MYSQL_E8_BA_BA_RPROD; the host is the value of
\* DB_HA_MYSQL_E8_BA_BA_RO_ENDPOINT when IsMaster is not set, and of
\* DB_HA_MYSQL_E8_BA_BA_WR_ENDPOINT when IsMaster is set.
C10_ReadOnlyHA ==
    (config.HACluster = <<"e","8">> /\ config.Schema = <<"b","a">>) =>
        \A k \in 1..Len(opens) :
            LET cc == config.Connections[opens[k].spec]
            IN  cc.IsReadOnly =>
                  opens[k].dsn =
                    Expected(U_RPROD, ValueOf(N_HA_RPROD),
                             IF cc.IsMaster THEN ValueOf(N_HA_WR) ELSE ValueOf(N_HA_RO),
                             cc.Parameters)

\* C10 witness: in HACluster mode a read-only replica spec with parameters
\* was opened with ba_RPROD:r2@tcp(h4)/ba?t=1 and a read-only master spec
\* without parameters with ba_RPROD:r2@tcp(h3)/ba.
C10_Witness ==
    /\ Accepted
    /\ config.HACluster # <<>>
    /\ Len(opens) = 2
    /\ ~config.Connections[1].IsMaster /\ config.Connections[1].IsReadOnly
    /\ config.Connections[2].IsMaster /\ config.Connections[2].IsReadOnly
    /\ opens[1].dsn = <<"b","a","_","R","P","R","O","D",":","r","2","@","t","c","p","(","h","4",")","/","b","a","?","t","=","1">>
    /\ opens[2].dsn = <<"b","a","_","R","P","R","O","D",":","r","2","@","t","c","p","(","h","3",")","/","b","a">>

(* ------------------------------------------------------------------ *)
(* Open in a cluster mode, under environments that lack variables.      *)
(* ------------------------------------------------------------------ *)
MissingEnvValues == { "full", "noendpoint", "nocredential", "none" }
ClusterConfigValues == { c \in ConfigValues : c.DSN = <<>> /\ c.Schema # <<>> }

InitEnv == InitWith(ClusterConfigValues, MissingEnvValues)

SpecEnv == InitEnv /\ [][Next]_vars

\* The variables the spec cc needs in the mode of c (cluster "e8", schema
\* "ba"), as the naming convention gives them.
NeededVariables(c, cc) ==
    IF c.Cluster # <<>>
    THEN { IF cc.IsMaster THEN N_ENDPOINT ELSE N_REPLICA,
           IF cc.IsReadOnly THEN N_RPROD ELSE N_WPROD }
    ELSE { IF cc.IsMaster THEN N_HA_WR ELSE N_HA_RO,
           IF cc.IsReadOnly THEN N_HA_RPROD ELSE N_HA_WPROD }

IsSet(name) == \E p \in Environ(env) : p[1] = name

\* C11: in Cluster or HACluster mode, if the endpoint or credential
\* variable needed for a spec is not set, Open fails with an error instead
\* of returning a registry.
C11_MissingVariableFails ==
    (/\ Returned
     /\ Invariant1(config) /\ ClusterMode(config)
     /\ \E k \in 1..Len(config.Connections) :
            \E v \in NeededVariables(config, config.Connections[k]) : ~IsSet(v)) =>
        Rejected

\* C12: at most one open is attempted per spec, in list order; a failed
\* open is the last one attempted, and Open then returns its error and no
\* registry.
C12_OpenFailureAborts ==
    /\ \A k \in 1..Len(opens) : opens[k].spec = k
    /\ \A k \in 1..(Len(opens) - 1) : opens[k].ok
    /\ (Len(opens) > 0 /\ ~opens[Len(opens)].ok) =>
           /\ Rejected
           /\ Deref(ret.err) = Err(ErrDriverOpen, <<>>)
           /\ Len(opens) <= Len(config.Connections)

\* C12 witness: the open for the first of two specs failed, Open returned
\* that error and nothing was opened for the second spec.
C12_Witness ==
    /\ Rejected
    /\ Len(config.Connections) = 2
    /\ Len(opens) = 1
    /\ ~opens[1].ok
    /\ "mysql" \in drivers
    /\ handles = <<>>

(* ------------------------------------------------------------------ *)
(* Open of two specs in DSN mode, over the pool settings.               *)
(* ------------------------------------------------------------------ *)
PoolSettingValues ==
    [ConnMaxLifetime : {Nil, Ptr(0), Ptr(600)},
     MaxIdleConnections : {Nil, Ptr(0), Ptr(5)},
     MaxOpenConnections : {Nil, Ptr(7)},
     ConnMaxIdleTime : {Nil, Ptr(60)}]

PoolConnection(n, pool) ==
    [Name |-> n, IsMaster |-> FALSE, IsReadOnly |-> FALSE,
     Parameters |-> <<>>, ConnectionPool |-> pool]

PoolConfigValues ==
    { [DSN |-> <<"r","@","/","f">>, Cluster |-> <<>>, HACluster |-> <<>>,
       Schema |-> <<>>,
       Connections |-> << PoolConnection(<<"f","o">>, p1),
                          PoolConnection(<<"b","a">>, p2) >>] :
      p1 \in PoolSettingValues, p2 \in PoolSettingValues }

InitPool == InitWith(PoolConfigValues, {"full"})

SpecPool == InitPool /\ [][Next]_vars

\* The setter calls of Open have been made for the handle of spec k.
PoolApplied(k) == k < idx \/ (k = idx /\ pc = "Register")

\* C13: once Open has applied the pool settings of a spec, each of the four
\* settings of that spec's handle is set iff the field is present in the
\* spec, to exactly the configured value (0 included); an absent field
\* leaves the handle's setting untouched, before the setters run every
\* setting is untouched, and a handle's settings depend on no other spec.
C13_PoolSettings ==
    \A k \in 1..Len(handles) :
        LET pool == config.Connections[k].ConnectionPool
        IN  IF PoolApplied(k)
            THEN /\ handles[k].connMaxLifetime = pool.ConnMaxLifetime
                 /\ handles[k].maxIdleConns = pool.MaxIdleConnections
                 /\ handles[k].maxOpenConns = pool.MaxOpenConnections
                 /\ handles[k].connMaxIdleTime = pool.ConnMaxIdleTime
            ELSE /\ handles[k].connMaxLifetime = Nil
                 /\ handles[k].maxIdleConns = Nil
                 /\ handles[k].maxOpenConns = Nil
                 /\ handles[k].connMaxIdleTime = Nil

\* C13 witness: Open has returned a registry for a first spec that sets
\* MaxIdleConnections to 0 and ConnMaxLifetime to 0 and nothing else, and a
\* second spec that sets only MaxOpenConnections; each handle holds exactly
\* its own settings.
C13_Witness ==
    /\ Accepted
    /\ handles[1].maxIdleConns = Ptr(0)
    /\ handles[1].connMaxLifetime = Ptr(0)
    /\ handles[1].maxOpenConns = Nil
    /\ handles[1].connMaxIdleTime = Nil
    /\ handles[2].maxIdleConns = Nil
    /\ handles[2].connMaxLifetime = Nil
    /\ handles[2].maxOpenConns = Ptr(7)
    /\ handles[2].connMaxIdleTime = Nil

(* ------------------------------------------------------------------ *)
(* The registry.                                                        *)
(* ------------------------------------------------------------------ *)
\* The values of the sequence q, as a set.
Range(q) == { q[k] : k \in 1..Len(q) }

\* C14: after a successful Open the names of the registry are the spec
\* names of the configuration, each name maps to the handle opened for its
\* spec, no two specs share a handle, and List returns exactly those
\* handles, each once, whatever the order.
C14_RegistryIsTheSpecs ==
    Accepted =>
        /\ DOMAIN Registry = SpecNames(config)
        /\ Len(opens) = Len(config.Connections)
        /\ \A k \in 1..Len(config.Connections) :
               /\ opens[k].spec = k /\ opens[k].ok
               /\ Registry[config.Connections[k].Name] = k
               /\ handles[k].dsn = opens[k].dsn
        /\ \A i, j \in 1..Len(config.Connections) :
               i # j => Registry[config.Connections[i].Name]
                          # Registry[config.Connections[j].Name]
        /\ listed # Nil =>
               /\ Len(Deref(listed)) = Len(config.Connections)
               /\ Range(Deref(listed)) = { Registry[n] : n \in SpecNames(config) }
               /\ \A i, j \in 1..Len(Deref(listed)) :
                      i # j => Deref(listed)[i] # Deref(listed)[j]

\* C14 witness: List on the registry of three specs has returned the three
\* handles in an order that is not the order of the specs.
C14_Witness ==
    /\ Accepted
    /\ Len(config.Connections) = 3
    /\ listed # Nil
    /\ Len(Deref(listed)) = 3
    /\ Deref(listed)[1] # Registry[config.Connections[1].Name]

\* The text t contains the text sub.
Contains(t, sub) ==
    \E i \in 0..(Len(t) - Len(sub)) : SubSeq(t, i + 1, i + Len(sub)) = sub

\* C15: Get of a registered name returns the handle registered under
\* exactly that name and no error; Get of any other name, a prefix or
\* another case of a registered name included, returns no handle and an
\* error whose text contains the requested name.
C15_GetExactMatch ==
    (Accepted /\ got # Nil) =>
        LET g == Deref(got)
        IN  IF \E k \in 1..Len(config.Connections) : config.Connections[k].Name = g.name
            THEN /\ g.err = Nil
                 /\ \E k \in 1..Len(config.Connections) :
                        /\ config.Connections[k].Name = g.name
                        /\ g.conn = k
                        /\ opens[k].spec = k
            ELSE /\ g.conn = 0
                 /\ g.err # Nil
                 /\ Contains(Deref(g.err), g.name)

\* C15 witness: with foo registered, Get("FOO") has returned no handle and
\* an error naming FOO.
C15_Witness ==
    /\ Accepted
    /\ <<"f","o","o">> \in DOMAIN Registry
    /\ got # Nil
    /\ Deref(got).name = <<"F","O","O">>
    /\ Deref(got).conn = 0
    /\ Deref(got).err = Ptr(S_UNKNOWN_NAME \o <<"F","O","O">>)

\* The names of the handles the last Close call attempted, in order.
ClosedNames == [k \in 1..Len(closes) |-> closes[k].name]

\* C16: Close attempts the handles in ascending lexicographic order of
\* their names, whatever the order of the specs in the configuration; the
\* handles foo, bar, baz are closed in the order bar, baz, foo.
C16_CloseInNameOrder ==
    (Accepted /\ closeCalls > 0) =>
        /\ \A i, j \in 1..Len(closes) :
               i < j => StrLess(closes[i].name, closes[j].name)
        /\ DOMAIN Registry = RegistryNames =>
               ClosedNames = << <<"b","a","r">>, <<"b","a","z">>, <<"f","o","o">> >>
        /\ DOMAIN Registry = { <<"f","o","o">>, <<"b","a","z">> } =>
               ClosedNames = << <<"b","a","z">>, <<"f","o","o">> >>

\* C16 witness: the specs are listed as foo, bar, baz and Close has
\* attempted bar, then baz, then foo.
C16_Witness ==
    /\ Accepted
    /\ Len(config.Connections) = 3
    /\ config.Connections[1].Name = <<"f","o","o">>
    /\ config.Connections[2].Name = <<"b","a","r">>
    /\ config.Connections[3].Name = <<"b","a","z">>
    /\ closeCalls = 1
    /\ ClosedNames = << <<"b","a","r">>, <<"b","a","z">>, <<"f","o","o">> >>

\* C17: one Close call attempts the close of every registered handle
\* exactly once, whichever closes fail: the attempts after a failed close
\* are still made.
C17_CloseAttemptsEveryHandle ==
    (Accepted /\ closeCalls > 0) =>
        /\ Len(closes) = Cardinality(DOMAIN Registry)
        /\ \A n \in DOMAIN Registry :
               /\ Cardinality({ k \in 1..Len(closes) : closes[k].name = n }) = 1
               /\ Cardinality({ k \in 1..Len(closes) : closes[k].handle = Registry[n] }) = 1
               /\ \A k \in 1..Len(closes) :
                      closes[k].name = n => closes[k].handle = Registry[n]

\* C17 witness: of three handles the close of the first in the order has
\* failed, and the second and third were attempted, the second failing and
\* the third succeeding.
C17_Witness ==
    /\ Accepted
    /\ closeCalls = 1
    /\ Len(closes) = 3
    /\ closes[1].err # Nil
    /\ closes[2].err # Nil
    /\ closes[3].err = Nil
    /\ handles[closes[3].handle].closed

\* The entry of the k-th attempt of the last Close call in the error text.
CloseEntry(k) == closes[k].name \o S_COLON_SPACE \o Deref(closes[k].err)

\* The attempts of the last Close call that failed.
FailedCloses == { k \in 1..Len(closes) : closes[k].err # Nil }

\* The error text TestConnections_CloseReturnError expects when the closes
\* of foo, bar and baz all fail, and the text when only that of bar fails.
TextAllThreeFailed ==
    <<"f","a","i","l","e","d"," ","t","o"," ","c","l","o","s","e"," ","c",
      "o","n","n","e","c","t","i","o","n","s",":"," ","b","a","r",":"," ",
      "d","r","i","v","e","r",":"," ","b","a","d"," ","c","o","n","n","e",
      "c","t","i","o","n",","," ","b","a","z",":"," ","d","r","i","v","e",
      "r",":"," ","b","a","d"," ","c","o","n","n","e","c","t","i","o","n",
      ","," ","f","o","o",":"," ","d","r","i","v","e","r",":"," ","b","a",
      "d"," ","c","o","n","n","e","c","t","i","o","n">>
TextOnlyBarFailed ==
    <<"f","a","i","l","e","d"," ","t","o"," ","c","l","o","s","e"," ","c",
      "o","n","n","e","c","t","i","o","n","s",":"," ","b","a","r",":"," ",
      "d","r","i","v","e","r",":"," ","b","a","d"," ","c","o","n","n","e",
      "c","t","i","o","n">>

C18_WitnessNoError ==
    /\ Accepted
    /\ closeCalls = 1
    /\ Len(closes) = 3
    /\ FailedCloses = {}
    /\ closeRet = Nil

\* C19: when more than one close fails, Close returns the first error
\* encountered, that of the first failing handle in close order, and not
\* the later ones.
C19_CloseReturnsFirstError ==
    (Accepted /\ closeCalls > 0 /\ Cardinality(FailedCloses) > 1) =>
        LET first == CHOOSE k \in FailedCloses : \A j \in FailedCloses : k <= j
        IN  /\ closeRet = closes[first].err
            /\ \A k \in FailedCloses \ {first} :
                   ~Contains(Deref(closeRet), CloseEntry(k))

\* C20: once Close has returned, with an error or without, every handle of
\* the registry is closed, and a use of a handle, also of one obtained by
\* Get or List before the Close, reports "sql: database is closed" and
\* never succeeds.
C20_ClosedAfterClose ==
    /\ (Accepted /\ closeCalls > 0) =>
           \A n \in DOMAIN Registry : handles[Registry[n]].closed
    /\ (used # Nil /\ Deref(used).afterClose) =>
           Deref(used).err = Ptr(ErrDBClosed)

\* C20 witness: Close has returned an error for a failed close, and the use
\* of a handle afterwards has reported that the database is closed.
C20_Witness ==
    /\ Accepted
    /\ closeCalls = 1
    /\ closeRet # Nil
    /\ closes[1].err # Nil
    /\ used # Nil
    /\ Deref(used).afterClose
    /\ Deref(used).handle = closes[1].handle
    /\ Deref(used).err = Ptr(ErrDBClosed)

\* C21: the registry's mapping from name to handle does not change after
\* construction: no Get, List or Close step adds, removes or rebinds an
\* entry, and a Get of a registered name after Close returns the handle
\* Open registered under it, without error.
C21_RegistryImmutable ==
    [][ /\ (Accepted /\ Accepted') => (ret.conns' = ret.conns /\ Registry' = dbs)
        /\ (Accepted /\ closeCalls > 0 /\ got' # got) =>
               (Deref(got').name \in SpecNames(config) =>
                    /\ Deref(got').err = Nil
                    /\ Deref(got').conn = dbs[Deref(got').name]) ]_vars

\* C21 witness: Close has closed the three handles, returning an error,
\* and the result of Get("foo") is the handle of the spec foo, now closed.
C21_Witness ==
    /\ Accepted
    /\ closeCalls > 0
    /\ closeRet # Nil
    /\ Cardinality(DOMAIN Registry) = 3
    /\ got # Nil
    /\ Deref(got).name = <<"f","o","o">>
    /\ Deref(got).err = Nil
    /\ Deref(got).conn = dbs[<<"f","o","o">>]
    /\ handles[Deref(got).conn].closed

\* The result a returned call of caller p has in isolation, from the map
\* Open built.
IsolatedResult(p) ==
    LET c == calls[p]
    IN  IF c.op = "Get"
        THEN IF c.name \in SpecNames(config)
             THEN c.out = <<dbs[c.name]>> /\ c.err = Nil
             ELSE c.out = <<0>> /\ c.err # Nil /\ Contains(Deref(c.err), c.name)
        ELSE /\ c.err = Nil
             /\ Len(c.out) = Len(config.Connections)
             /\ Range(c.out) = { dbs[n] : n \in SpecNames(config) }
             /\ \A i, j \in 1..Len(c.out) : i # j => c.out[i] # c.out[j]

\* C22: once Open has returned a registry, under every interleaving of the
\* Get and List calls of the concurrent callers each call returns the
\* result it has in isolation, and no step of a call writes to the
\* registry.
C22_ConcurrentReads ==
    /\ [](\A p \in Callers : calls[p].state = "returned" => IsolatedResult(p))
    /\ [](Accepted => Registry = dbs)
    /\ [][(Accepted /\ Accepted') => ret' = ret]_vars

\* C22 witness: one caller's List has returned the three handles while a
\* second caller's List, iterating in another order, is half way.
C22_Witness ==
    /\ Accepted
    /\ calls[1].op = "List" /\ calls[1].state = "returned"
    /\ Len(calls[1].out) = 3
    /\ calls[2].op = "List" /\ calls[2].state = "running"
    /\ Len(calls[2].out) = 1
    /\ calls[2].keys # calls[1].keys

(* ------------------------------------------------------------------ *)
(* The JSON form of the configuration.                                  *)
(* ------------------------------------------------------------------ *)
\* The call sequence on the text or value at hand is finished.
CodecDone == codec.phase = "done"

\* C23: a duration text that UnmarshalJSON accepts is the text MarshalJSON
\* gives for the parsed value, and a Duration value is the value
\* UnmarshalJSON gives for its MarshalJSON text.
C23_DurationRoundTrip ==
    (CodecDone /\ codec.err = Nil) =>
        IF codec.origin = "text"
        THEN codec.text = codec.text0
        ELSE codec.value = codec.value0

\* C23, amended: a Duration value is the value UnmarshalJSON gives for its
\* MarshalJSON text.  For a duration text that UnmarshalJSON accepts,
\* MarshalJSON of the parsed value gives the text of time.Duration.String,
\* which parses to the same value but is the accepted text only when that
\* was already in this form: "100ms" and "1.5s" stay, "10m" becomes
\* "10m0s", "60s" becomes "1m0s", "-1h" becomes "-1h0m0s".
C23_DurationValueRoundTrip ==
    (CodecDone /\ codec.err = Nil) =>
        IF codec.origin = "text"
        THEN /\ UnmarshalJSON(Deref(codec.text)) = [value |-> codec.value, err |-> Nil]
             /\ codec.text0 = Ptr(jsonString(<<"1","0","0","m","s">>)) =>
                    codec.text = codec.text0 /\ codec.value = Ptr(100)
             /\ codec.text0 = Ptr(jsonString(<<"1",".","5","s">>)) =>
                    codec.text = codec.text0 /\ codec.value = Ptr(1500)
             /\ codec.text0 = Ptr(jsonString(<<"1","0","m">>)) =>
                    /\ codec.text = Ptr(jsonString(<<"1","0","m","0","s">>))
                    /\ codec.value = Ptr(600000)
             /\ codec.text0 = Ptr(jsonString(<<"6","0","s">>)) =>
                    codec.text = Ptr(jsonString(<<"1","m","0","s">>))
             /\ codec.text0 = Ptr(jsonString(<<"-","1","h">>)) =>
                    codec.text = Ptr(jsonString(<<"-","1","h","0","m","0","s">>))
             /\ codec.text0 = Ptr(jsonString(<<"1","h","1",".","5","s">>)) =>
                    codec.text = Ptr(jsonString(<<"1","h","0","m","1",".","5","s">>))
        ELSE /\ codec.value = codec.value0
             /\ codec.value0 = Ptr(100) =>
                    codec.text = Ptr(jsonString(<<"1","0","0","m","s">>))

\* C23 witness: "10m" was parsed to ten minutes and serialized as "10m0s".
C23_Witness ==
    /\ CodecDone
    /\ codec.origin = "text"
    /\ codec.text0 = Ptr(jsonString(<<"1","0","m">>))
    /\ codec.value = Ptr(10 * Minute)
    /\ codec.text = Ptr(jsonString(<<"1","0","m","0","s">>))

\* C23 second witness: a value with hours and a fraction of a second was
\* serialized and parsed back.
C23_WitnessValue ==
    /\ CodecDone
    /\ codec.origin = "value"
    /\ codec.value0 = Ptr(25 * Hour + 5 * Second + 250 * Millisecond)
    /\ codec.text = Ptr(jsonString(<<"2","5","h","0","m","5",".","2","5","s">>))
    /\ codec.value = codec.value0

\* The pool settings of the k-th connection of the configuration c.
PoolOf(c, k) == c.Connections[k].ConnectionPool

\* C24: a Config serialized to JSON and parsed back is equal field for
\* field; each of the four pool settings that is nil stays nil and each
\* present one keeps its value, per field and per connection.
C24_ConfigRoundTrip ==
    CodecDone =>
        /\ codec.origin = "value" => codec.err = Nil
        /\ codec.err = Nil =>
               LET c0 == Deref(codec.value0)
                   c1 == Deref(codec.value)
               IN  /\ c1 = c0
                   /\ c1.DSN = c0.DSN /\ c1.Cluster = c0.Cluster
                   /\ c1.HACluster = c0.HACluster /\ c1.Schema = c0.Schema
                   /\ Len(c1.Connections) = Len(c0.Connections)
                   /\ \A k \in 1..Len(c0.Connections) :
                        /\ (PoolOf(c0, k).ConnMaxLifetime = Nil)
                               <=> (PoolOf(c1, k).ConnMaxLifetime = Nil)
                        /\ (PoolOf(c0, k).MaxIdleConnections = Nil)
                               <=> (PoolOf(c1, k).MaxIdleConnections = Nil)
                        /\ (PoolOf(c0, k).MaxOpenConnections = Nil)
                               <=> (PoolOf(c1, k).MaxOpenConnections = Nil)
                        /\ (PoolOf(c0, k).ConnMaxIdleTime = Nil)
                               <=> (PoolOf(c1, k).ConnMaxIdleTime = Nil)
                        /\ PoolOf(c1, k) = PoolOf(c0, k)
        /\ (codec.origin = "text" /\ codec.err = Nil) =>
               \A key \in PoolKeys :
                   LET cd == Deref(codec.text0).v.connections.v[1].v
                       present == /\ "connection_pool" \in DOMAIN cd
                                  /\ key \in DOMAIN cd.connection_pool.v
                       pool == PoolOf(Deref(codec.value), 1)
                       field == IF key = "conn_max_lifetime" THEN pool.ConnMaxLifetime
                                ELSE IF key = "max_idle_connections" THEN pool.MaxIdleConnections
                                ELSE IF key = "max_open_connections" THEN pool.MaxOpenConnections
                                ELSE pool.ConnMaxIdleTime
                   IN  present <=> (field # Nil)

\* C24 witness: a configuration of two connections, the first with a zero
\* ConnMaxLifetime, a zero MaxIdleConnections and the other two settings
\* nil, the second with only ConnMaxIdleTime set, has been serialized and
\* parsed back.
C24_Witness ==
    /\ CodecDone
    /\ codec.origin = "value"
    /\ codec.err = Nil
    /\ Len(Deref(codec.value).Connections) = 2
    /\ PoolOf(Deref(codec.value), 1) =
           [ConnMaxLifetime |-> Ptr(0), MaxIdleConnections |-> Ptr(0),
            MaxOpenConnections |-> Nil, ConnMaxIdleTime |-> Nil]
    /\ PoolOf(Deref(codec.value), 2) =
           [ConnMaxLifetime |-> Nil, MaxIdleConnections |-> Nil,
            MaxOpenConnections |-> Nil, ConnMaxIdleTime |-> Ptr(1500)]
    /\ Deref(codec.text).v.connections.v[1].v.connection_pool.v.max_open_connections = jNull

(* ------------------------------------------------------------------ *)
(* The order of the steps of Open.                                      *)
(* ------------------------------------------------------------------ *)
\* The handle h holds exactly the settings of pool.
HoldsPool(h, pool) ==
    /\ handles[h].connMaxLifetime = pool.ConnMaxLifetime
    /\ handles[h].maxIdleConns = pool.MaxIdleConnections
    /\ handles[h].maxOpenConns = pool.MaxOpenConnections
    /\ handles[h].connMaxIdleTime = pool.ConnMaxIdleTime

\* C25: Open takes the specs one at a time in list order: when the handle
\* of a spec is opened, the handle of every earlier spec has been opened,
\* has its pool settings and is registered, and at most one handle is
\* opened and not yet registered.
C25_OneSpecAtATime ==
    /\ \A i \in 1..Len(opens) : opens[i].spec = i
    /\ \A j \in 1..(Len(opens) - 1) :
           /\ opens[j].ok
           /\ config.Connections[j].Name \in DOMAIN dbs
           /\ dbs[config.Connections[j].Name] = j
           /\ HoldsPool(j, config.Connections[j].ConnectionPool)
    /\ Len(handles) - Cardinality(DOMAIN dbs) \in {0, 1}
    /\ Len(handles) > Cardinality(DOMAIN dbs) => (pc \in {"Pool", "Register"} /\ db = Len(handles))

\* C25 witness: the handle of the second spec has just been opened; the
\* first, which sets pool settings, has them and is registered, and the
\* second is not registered yet.
C25_Witness ==
    /\ pc = "Pool"
    /\ idx = 2
    /\ Len(opens) = 2
    /\ opens[2].ok
    /\ AnyPoolSet(config.Connections[1].ConnectionPool)
    /\ HoldsPool(1, config.Connections[1].ConnectionPool)
    /\ dbs[config.Connections[1].Name] = 1
    /\ config.Connections[2].Name \notin DOMAIN dbs

\* C26: when Open fails at a spec, by a failed open or by the master and
\* read-only check, the handles it opened for the earlier specs are still
\* open, and no registry is returned through which they could be reached.
C26_EarlierHandlesLeftOpen ==
    (Returned /\ ret.err # Nil) =>
        /\ ret.conns = Nil
        /\ \A h \in 1..Len(handles) : ~handles[h].closed
        /\ closes = <<>>

\* C26 witness: the open of the second spec has failed; the handle of the
\* first is open and registered in the map that is not returned.
C26_Witness ==
    /\ Rejected
    /\ Len(opens) = 2
    /\ opens[1].ok /\ ~opens[2].ok
    /\ Len(handles) = 1
    /\ ~handles[1].closed
    /\ dbs[config.Connections[1].Name] = 1
    /\ ret.conns = Nil

\* C26 second witness: the second spec is neither master nor read-only in
\* cluster mode; the handle of the first is open.
C26_WitnessReplica ==
    /\ Rejected
    /\ Len(config.Connections) >= 2
    /\ ret.err = Ptr(Err(ErrReplicaWrite, config.Connections[2].Name))
    /\ Len(handles) = 1
    /\ ~handles[1].closed

(* ------------------------------------------------------------------ *)
(* Panics.                                                              *)
(* ------------------------------------------------------------------ *)
\* The open paths the configuration c selects: the modes that are set.
OpenPaths(c) ==
    (IF c.DSN # <<>> THEN {"DSN"} ELSE {})
    \cup (IF c.Cluster # <<>> THEN {"Cluster"} ELSE {})
    \cup (IF c.HACluster # <<>> THEN {"HACluster"} ELSE {})

\* C27: Open, Get, List and Close do not panic and a failure is a returned
\* error: a configuration that passes validation selects exactly one open
\* path, so the handle the pool settings are applied to, and every handle
\* of the registry, is a handle sql.Open returned, never nil.
C27_NoPanicNoNilHandle ==
    /\ pc # "Panic"
    /\ Returned => ((ret.conns = Nil) # (ret.err = Nil))
    /\ (pc \in {"Loop", "Connect", "Pool", "Register"} \/ Accepted) =>
           Cardinality(OpenPaths(config)) = 1
    /\ pc \in {"Pool", "Register"} =>
           /\ db \in 1..Len(handles)
           /\ opens[Len(opens)].spec = idx /\ opens[Len(opens)].ok
    /\ \A n \in DOMAIN dbs : dbs[n] \in 1..Len(handles)
    /\ Accepted => \A n \in DOMAIN Registry : Registry[n] \in 1..Len(handles)
    /\ got # Nil => ((Deref(got).err = Nil) # (Deref(got).conn = 0))
    /\ listed # Nil => \A k \in 1..Len(Deref(listed)) : Deref(listed)[k] # 0
    /\ closeCalls > 0 => ((closeRet # Nil) <=> (\E k \in 1..Len(closes) : closes[k].err # Nil))

\* C27 witness: in HACluster mode Open has applied pool settings to the
\* handle of the first of two specs and returned the registry; List and a
\* Close with a failed close have returned.
C27_Witness ==
    /\ Accepted
    /\ config.HACluster # <<>>
    /\ Len(config.Connections) = 2
    /\ AnyPoolSet(config.Connections[1].ConnectionPool)
    /\ HoldsPool(Registry[config.Connections[1].Name],
                 config.Connections[1].ConnectionPool)
    /\ listed # Nil
    /\ closeCalls = 1
    /\ closeRet # Nil

\* C28: Close leaves the handles in the registry, and a second Close call
\* attempts the close of every registered handle again, in the same
\* ascending order of name, whether its close failed or succeeded in the
\* first call.
C28_SecondCloseAttemptsAll ==
    [][(Accepted /\ closeCalls >= 1 /\ closeCalls' = closeCalls + 1) =>
          /\ Len(closes') = Cardinality(DOMAIN Registry)
          /\ [k \in 1..Len(closes') |-> closes'[k].name] = ClosedNames
          /\ \A k \in 1..Len(closes') : closes'[k].handle = closes[k].handle
          /\ \A i, j \in 1..Len(closes') :
                 i < j => StrLess(closes'[i].name, closes'[j].name)
          /\ Registry' = Registry ]_vars

\* C28 witness: the second Close call on a registry of three handles has
\* attempted bar, baz and foo.
C28_Witness ==
    /\ Accepted
    /\ closeCalls = 2
    /\ ClosedNames = << <<"b","a","r">>, <<"b","a","z">>, <<"f","o","o">> >>
    /\ \A k \in 1..3 : closes[k].handle = Registry[closes[k].name]
    /\ closeRet = Nil

(* ------------------------------------------------------------------ *)
(* The logger.                                                          *)
(* ------------------------------------------------------------------ *)
\* What the n-th call of a logger method did, in order.
EventsOf(n) ==
    LET own == { k \in 1..Len(logger.events) : logger.events[k].call = n }
        first == IF own = {} THEN 1 ELSE CHOOSE k \in own : \A j \in own : k <= j
    IN  [k \in 1..Cardinality(own) |->
           [kind |-> logger.events[first + k - 1].kind,
            arg |-> logger.events[first + k - 1].arg]]

\* C29: with an exit function injected through NewLogger, each call of
\* Fatal or Fatalf prints its line and then calls the exit function exactly
\* once, with code 1; a call of Error, Info, Warning or Debug, or of their
\* f variants, does not call it.
C29_FatalExitsOnce ==
    logger.osExitFunc # "nil" =>
        \A n \in 1..Len(logger.methods) :
            /\ logger.methods[n] \in {"Fatal", "Fatalf"} =>
                   EventsOf(n) = << [kind |-> "print", arg |-> "Fatal"],
                                    [kind |-> "exit", arg |-> 1] >>
            /\ logger.methods[n] \in {"Error", "Errorf", "Info", "Infof",
                                      "Warning", "Warningf", "Debug", "Debugf"} =>
                   \A k \in 1..Len(EventsOf(n)) : EventsOf(n)[k].kind = "print"

\* C29 witness: with an exit function that returns, Error, Fatalf and
\* Fatal were called in this order; the exit function was called twice in
\* all, each time with code 1.
C29_Witness ==
    /\ logger.osExitFunc = "returns"
    /\ logger.methods = << "Error", "Fatalf", "Fatal" >>
    /\ [k \in 1..Len(logger.events) |-> logger.events[k].kind]
           = << "print", "print", "exit", "print", "exit" >>
    /\ logger.events[3].arg = 1 /\ logger.events[5].arg = 1

====
